---- MODULE Spec2Model ----
(***************************************************************************)
(* Model of the astrohaze chart engine (src/python): the position          *)
(* normalizer and nakshatra resolver, the chart assembler, the Vimshottari *)
(* dasha engine, the divisional chart engine and the conjunction test of   *)
(* the yoga detector.                                                      *)
(*                                                                         *)
(* Longitudes are Python floats in the source.  The model keeps them on a  *)
(* grid: a longitude is an integer number k of 1/Res degree and stands for *)
(* the float nearest to k/Res.  Where the source divides by 30 or by a     *)
(* divisor that is an exact float, no grid point lies within rounding of a *)
(* boundary that is not itself an exact float, so floor and remainder are  *)
(* computed on the grid (x/30 becomes L \div (30*Res), x % 30 becomes      *)
(* L % (30*Res)).  Where the divisor is 360/27 or 30/9, which a float      *)
(* cannot hold, the computation is done in binary floating point.          *)
(* Instants are integers counting quarter days, the granularity of         *)
(* timedelta(days=years*365.25).                                           *)
(***************************************************************************)
EXTENDS Integers, Sequences, FiniteSets, TLC

\* ------------------------------------------------------------------ bounds
\* grid points per degree of longitude
Res == 4
\* evaluation instants are sampled up to NowSlack quarter days around each
\* period boundary
NowSlack == 4
\* longest chart_types list handed to get_all_divisional_charts
MaxTypes == 2
\* largest orb, in degrees, handed to planets_in_conjunction
MaxOrb == 12
\* latest birth instant, in quarter days after the epoch midnight
MaxBirthTime == 3

\* --------------------------------------------------------------- the grid
Circle == 360 * Res
Longitudes == 0..(Circle - 1)

\* ------------------------------------------------- vedic_calculator tables
SIGNS ==
  << "Aries", "Taurus", "Gemini", "Cancer", "Leo", "Virgo",
     "Libra", "Scorpio", "Sagittarius", "Capricorn", "Aquarius", "Pisces" >>

NAKSHATRAS ==
  << "Ashwini", "Bharani", "Krittika", "Rohini", "Mrigashira", "Ardra",
     "Punarvasu", "Pushya", "Ashlesha", "Magha", "Purva Phalguni",
     "Uttara Phalguni", "Hasta", "Chitra", "Swati", "Vishakha", "Anuradha",
     "Jyeshtha", "Mula", "Purva Ashadha", "Uttara Ashadha", "Shravana",
     "Dhanishta", "Shatabhisha", "Purva Bhadrapada", "Uttara Bhadrapada",
     "Revati" >>

\* NAKSHATRA_LORDS with Ketu and Venus exchanged
NAKSHATRA_LORDS_venus_first ==
  << "Venus", "Ketu", "Sun", "Moon", "Mars", "Rahu", "Jupiter", "Saturn",
     "Mercury" >>

NAKSHATRA_LORDS ==
  << "Ketu", "Venus", "Sun", "Moon", "Mars", "Rahu", "Jupiter", "Saturn",
     "Mercury" >>

\* the keys of PLANETS in insertion order, the order calculate_chart visits
PLANETS ==
  << "Sun", "Moon", "Mars", "Mercury", "Jupiter", "Venus", "Saturn", "Rahu",
     "Ketu", "Ascendant" >>

\* ------------------------------------------------------- python primitives
\* an exception is the record of its name; IndexError, raised while a table
\* of strings is indexed, stands in for the string looked up
IndexError == "IndexError"
None == [ none |-> TRUE ]
TypeError == [ raised |-> "TypeError" ]
ValueError == [ raised |-> "ValueError" ]
EphemerisError == [ raised |-> "swisseph.Error" ]

\* list[i] with a zero-based index; an index past the end raises IndexError
ListGet(list, i) ==
  IF i \in 0..(Len(list) - 1) THEN list[i + 1] ELSE IndexError

\* list.index(x): the zero-based position of the first x
ListIndex(list, x) ==
  CHOOSE i \in 0..(Len(list) - 1) :
    /\ list[i + 1] = x
    /\ \A j \in 0..(i - 1) : list[j + 1] # x

\* f"{int(d)}°{int((d % 1) * 60)}'" for a degree d given in grid units: the
\* string is determined by its two numbers, kept as a pair
degree_formatted(d) == << d \div Res, ((d % Res) * 60) \div Res >>

\* --------------------------------------------------------- python floats
\* Where the source divides by a constant that binary floating point cannot
\* hold (360/27, 30/9), floor and remainder near a boundary depend on how
\* the constant and the quotient are rounded.  These computations are done
\* on the floats themselves.  A natural number of any size is the list of
\* its digits in base LimbBase, lowest digit first, no leading zero digit.
LimbBits == 15
LimbBase == 32768

\* binary digits of the mantissa of a Python float
MantissaBits == 53

RECURSIVE pow2(_)
pow2(n) == IF n <= 0 THEN 1 ELSE 2 * pow2(n - 1)

\* the number of binary digits of n
RECURSIVE bits_of(_)
bits_of(n) == IF n <= 0 THEN 0 ELSE 1 + bits_of(n \div 2)

RECURSIVE big(_)
big(n) == IF n = 0 THEN << >> ELSE << n % LimbBase >> \o big(n \div LimbBase)

RECURSIVE big_trim(_)
big_trim(a) ==
  IF a = << >> THEN a
  ELSE IF a[Len(a)] = 0 THEN big_trim(SubSeq(a, 1, Len(a) - 1)) ELSE a

RECURSIVE big_add(_, _, _)
big_add(a, b, carry) ==
  IF a = << >> /\ b = << >> THEN big(carry)
  ELSE LET x == IF a = << >> THEN 0 ELSE Head(a)
           y == IF b = << >> THEN 0 ELSE Head(b)
           s == x + y + carry
       IN << s % LimbBase >>
            \o big_add(IF a = << >> THEN a ELSE Tail(a),
                       IF b = << >> THEN b ELSE Tail(b), s \div LimbBase)

\* a - b for a >= b
big_sub(a, b) ==
  LET RECURSIVE big_sub_digits(_, _, _)
      big_sub_digits(x, y, borrow) ==
        IF x = << >> THEN << >>
        ELSE LET d == IF y = << >> THEN 0 ELSE Head(y)
                 s == Head(x) - d - borrow
             IN << s % LimbBase >>
                  \o big_sub_digits(Tail(x), IF y = << >> THEN y ELSE Tail(y),
                                    IF s < 0 THEN 1 ELSE 0)
  IN big_trim(big_sub_digits(a, b, 0))

\* a * s for a natural number s below LimbBase
big_scale(a, s) ==
  LET RECURSIVE big_mul_small(_, _)
      big_mul_small(x, carry) ==
        IF x = << >> THEN big(carry)
        ELSE LET p == Head(x) * s + carry
             IN << p % LimbBase >> \o big_mul_small(Tail(x), p \div LimbBase)
  IN big_trim(big_mul_small(a, 0))

\* -1, 0, 1 as a is below, equal to, above b
big_cmp(a, b) ==
  LET RECURSIVE big_cmp_from(_)
      big_cmp_from(i) ==
        IF i = 0 THEN 0
        ELSE IF a[i] < b[i] THEN -1
        ELSE IF a[i] > b[i] THEN 1
        ELSE big_cmp_from(i - 1)
  IN IF Len(a) < Len(b) THEN -1
     ELSE IF Len(a) > Len(b) THEN 1
     ELSE big_cmp_from(Len(a))

\* a * 2^bits
big_shl(a, bits) ==
  IF a = << >> THEN a
  ELSE [ i \in 1..(bits \div LimbBits) |-> 0 ]
         \o big_scale(a, pow2(bits % LimbBits))

\* << a div d, a mod d >> for a natural number d below LimbBase
big_divmod_small(a, d) ==
  LET RECURSIVE big_divmod_small_from(_, _)
      big_divmod_small_from(i, rem) ==
        IF i = 0 THEN << << >>, rem >>
        ELSE LET cur == rem * LimbBase + a[i]
                 rest == big_divmod_small_from(i - 1, cur % d)
             IN << rest[1] \o << cur \div d >>, rest[2] >>
      r == big_divmod_small_from(Len(a), 0)
  IN << big_trim(r[1]), r[2] >>

big_bits(a) ==
  IF a = << >> THEN 0 ELSE (Len(a) - 1) * LimbBits + bits_of(a[Len(a)])

\* a float is [m, e], the number m * 2^e with m a natural number
float_of_int(n) == [ m |-> big(n), e |-> 0 ]

float_min_e(x, y) == IF x.e < y.e THEN x.e ELSE y.e

\* -1, 0, 1 as x is below, equal to, above y
float_cmp(x, y) ==
  LET e == float_min_e(x, y)
  IN big_cmp(big_shl(x.m, x.e - e), big_shl(y.m, y.e - e))

\* x - y for x >= y; the differences taken here are exact floats
float_sub(x, y) ==
  LET e == float_min_e(x, y)
  IN [ m |-> big_sub(big_shl(x.m, x.e - e), big_shl(y.m, y.e - e)), e |-> e ]

\* the exact product x * n, n a natural number below LimbBase
float_scale(x, n) == [ m |-> big_scale(x.m, n), e |-> x.e ]

\* x * 2^bits, exact
float_shift(x, bits) == [ m |-> x.m, e |-> x.e + bits ]

\* the float nearest to m * 2^e, ties to the even mantissa; sticky tells
\* that the number to round lies above m * 2^e by less than 2^e
float_round(m, e, sticky) ==
  LET drop == big_bits(m) - MantissaBits
      \* << a div 2^bits, a mod 2^bits >>, qr the quotient and remainder of
      \* the limbs of a from the one holding bit number bits
      big_split(a, bits) ==
        LET limbs == bits \div LimbBits
            low == SubSeq(a, 1, IF limbs < Len(a) THEN limbs ELSE Len(a))
            high == SubSeq(a, limbs + 1, Len(a))
            joined(qr) ==
              << qr[1],
                 big_trim(big_add(low, [ i \in 1..limbs |-> 0 ] \o big(qr[2]),
                                  0)) >>
        IN joined(big_divmod_small(high, pow2(bits % LimbBits)))
      \* hl the kept and the dropped digits of m; half is -1, 0, 1 as the
      \* dropped digits are below, equal to, above half a unit of the kept
      rounded(hl, half) ==
        LET odd == hl[1][1] % 2 = 1
            up == \/ half = 1
                  \/ half = 0 /\ sticky
                  \/ half = 0 /\ ~sticky /\ odd
        IN [ m |-> IF up THEN big_add(hl[1], big(1), 0) ELSE hl[1],
             e |-> e + drop ]
      round_split(hl) ==
        rounded(hl, big_cmp(big_shl(hl[2], 1), big_shl(big(1), drop)))
  IN IF drop <= 0 THEN [ m |-> m, e |-> e ]
     ELSE round_split(big_split(m, drop))

\* x * n: the product rounded to a float
float_mul_int(x, n) == float_round(big_scale(x.m, n), x.e, FALSE)

\* p / d of two ints, d below LimbBase: the quotient rounded to a float
float_of_ratio(p, d) ==
  IF p = 0 THEN float_of_int(0)
  ELSE LET rounded(qr) == float_round(qr[1], 0 - 5 * LimbBits, qr[2] > 0)
       IN rounded(big_divmod_small(big_shl(big(p), 5 * LimbBits), d))

\* floor(x / y) in exact arithmetic; the quotient is below 2^d where d is
\* the difference of the binary lengths of x and y, plus one
float_floor_div(x, y) ==
  LET d == (big_bits(x.m) + x.e) - (big_bits(y.m) + y.e) + 1
  IN CHOOSE n \in 0..pow2(d) :
       /\ float_cmp(float_scale(y, n), x) <= 0
       /\ float_cmp(x, float_scale(y, n + 1)) < 0

\* x % y for x >= 0 and y > 0: the remainder is an exact float
float_mod(x, y) == float_sub(x, float_scale(y, float_floor_div(x, y)))

\* int(x / y) for x >= 0 and y > 0.  x / y is the exact quotient rounded to
\* the nearest float, so it is the integer n above the exact quotient as
\* soon as the exact quotient is within half the spacing of the floats
\* below n, which is 2^(p - MantissaBits) for 2^p < n <= 2^(p+1)
float_div_int(x, y) ==
  LET nearest(n) ==
        LET p == bits_of(n - 1) - 1
            s == MantissaBits - p
        IN IF float_cmp(float_shift(x, s),
                        float_sub(float_shift(float_scale(y, n), s), y)) >= 0
           THEN n ELSE n - 1
  IN nearest(float_floor_div(x, y) + 1)

\* the float a grid point stands for: the one nearest to k / Res degrees
grid_float(k) == float_of_ratio(k, Res)

\* ------------------------------------------------------ position normalizer
\* the body of calculate_planet_position after the ephemeris call returned
\* longitude
calculate_planet_position(longitude) ==
  LET sign_num == longitude \div (30 * Res)
      degree_in_sign == longitude % (30 * Res)
  IN [ longitude |-> longitude,
       sign |-> ListGet(SIGNS, sign_num),
       sign_num |-> sign_num + 1,
       degree |-> degree_in_sign,
       degree_formatted |-> degree_formatted(degree_in_sign) ]

\* -------------------------------------------------------- nakshatra resolver
\* nakshatra_length = 360 / 27, rounded to a float
nakshatra_length == float_of_ratio(360, 27)

\* calculate_nakshatra with the pada left zero-based
calculate_nakshatra_pada0(longitude) ==
  LET \* lines 128-135, nakshatra_num and pada computed
      nakshatra_data(nakshatra_num, pada) ==
        LET lord_index == nakshatra_num % 9
        IN [ nakshatra |-> ListGet(NAKSHATRAS, nakshatra_num),
             nakshatra_num |-> nakshatra_num + 1,
             pada |-> pada,
             lord |-> ListGet(NAKSHATRA_LORDS, lord_index) ]
      \* lines 125-127 at the float x of longitude
      nakshatra_at(x) ==
        nakshatra_data(float_div_int(x, nakshatra_length),
                       float_div_int(float_mod(x, nakshatra_length),
                                     float_shift(nakshatra_length, 0 - 2)))
  IN nakshatra_at(grid_float(longitude))

\* nakshatra_length / 4 is exact, a shift of the exponent by two
calculate_nakshatra(longitude) ==
  LET \* lines 128-135, nakshatra_num and pada computed
      nakshatra_data(nakshatra_num, pada) ==
        LET lord_index == nakshatra_num % 9
        IN [ nakshatra |-> ListGet(NAKSHATRAS, nakshatra_num),
             nakshatra_num |-> nakshatra_num + 1,
             pada |-> pada,
             lord |-> ListGet(NAKSHATRA_LORDS, lord_index) ]
      \* lines 125-127 at the float x of longitude
      nakshatra_at(x) ==
        nakshatra_data(float_div_int(x, nakshatra_length),
                       float_div_int(float_mod(x, nakshatra_length),
                                     float_shift(nakshatra_length, 0 - 2)) + 1)
  IN nakshatra_at(grid_float(longitude))

\* calculate_nakshatra at every longitude a caller hands in: the grid, and
\* up to 180 degrees past it
nakshatra_of ==
  [ longitude \in 0..(Circle + 180 * Res) |-> calculate_nakshatra(longitude) ]

\* ------------------------------------------------------------- dasha engine
\* a datetime is [t |-> quarter days since the epoch midnight,
\*                aware |-> whether it carries a tzinfo]
\* days * 4 of one year of timedelta(days=years * 365.25)
QuarterDaysPerYear == 1461

dasha_years ==
  [ Ketu |-> 7, Venus |-> 20, Sun |-> 6, Moon |-> 10, Mars |-> 7,
    Rahu |-> 18, Jupiter |-> 16, Saturn |-> 19, Mercury |-> 17 ]

\* dt.strftime('%Y-%m-%d'): the calendar day of dt; the time of day and the
\* tzinfo are not part of the string
strftime(dt) == dt.t \div 4

\* datetime.fromisoformat of a '%Y-%m-%d' string: naive midnight of that day
fromisoformat(day) == [ t |-> 4 * day, aware |-> FALSE ]

\* lord_idx starting one lord late
lord_idx_late(start_idx, i) == (start_idx + i + 1) % 9

\* the index of the period lord of iteration i
lord_idx(start_idx, i) == (start_idx + i) % 9

\* dasha_loop that starts every period at the birth datetime
RECURSIVE dasha_loop_from_birth(_, _, _, _)
dasha_loop_from_birth(i, start_idx, current_date, dashas) ==
  IF i >= 9 THEN dashas
  ELSE
    LET lord == ListGet(NAKSHATRA_LORDS, lord_idx(start_idx, i))
        years == dasha_years[lord]
        end_date == [ current_date EXCEPT !.t = @ + years * QuarterDaysPerYear ]
    IN dasha_loop_from_birth(i + 1, start_idx, current_date,
                  Append(dashas,
                         [ lord |-> lord,
                           start |-> strftime(current_date),
                           end |-> strftime(end_date),
                           years |-> years ]))

\* the loop "for i in range(9)" from iteration i on; current_date is a
\* datetime and dashas the list built so far
RECURSIVE dasha_loop(_, _, _, _)
dasha_loop(i, start_idx, current_date, dashas) ==
  IF i >= 9 THEN dashas
  ELSE
    LET lord == ListGet(NAKSHATRA_LORDS, lord_idx(start_idx, i))
        years == dasha_years[lord]
        end_date == [ current_date EXCEPT !.t = @ + years * QuarterDaysPerYear ]
    IN dasha_loop(i + 1, start_idx, end_date,
                  Append(dashas,
                         [ lord |-> lord,
                           start |-> strftime(current_date),
                           end |-> strftime(end_date),
                           years |-> years ]))

\* dasha_periods with the first period begun before the birth by the part
\* of it that the Moon's pada says has elapsed
dasha_periods_balance_by_pada(birth_datetime, moon_nakshatra) ==
  LET starting_lord == moon_nakshatra.lord
      start_idx == ListIndex(NAKSHATRA_LORDS, starting_lord)
      elapsed == ((moon_nakshatra.pada - 1) * dasha_years[starting_lord]
                    * QuarterDaysPerYear) \div 4
  IN dasha_loop(0, start_idx, [ birth_datetime EXCEPT !.t = @ - elapsed ], << >>)

\* lines 194-223: the nine periods generated for a birth
dasha_periods(birth_datetime, moon_nakshatra) ==
  LET starting_lord == moon_nakshatra.lord
      start_idx == ListIndex(NAKSHATRA_LORDS, starting_lord)
  IN dasha_loop(0, start_idx, birth_datetime, << >>)

\* datetime.now(pytz.UTC), made naive when the birth datetime is naive; clock
\* is the instant read from the system clock
now_for(birth_datetime, clock) ==
  [ t |-> clock, aware |-> birth_datetime.aware ]

\* the loop "for dasha in dashas" from position k on: the first period with
\* start <= now <= end, None when there is none, TypeError when a naive
\* start is compared with an aware now
RECURSIVE current_loop(_, _, _)
current_loop(k, dashas, now) ==
  IF k > Len(dashas) THEN None
  ELSE
    LET start == fromisoformat(dashas[k].start)
        end == fromisoformat(dashas[k].end)
    IN IF start.aware # now.aware THEN TypeError
       ELSE IF start.t <= now.t /\ now.t <= end.t THEN dashas[k]
       ELSE current_loop(k + 1, dashas, now)

\* ------------------------------------------------------------ chart assembler
\* the body of calculate_ascendant once swe.houses returned tropical_asc and
\* get_ayanamsa returned ayanamsa
calculate_ascendant(tropical_asc, ayanamsa) ==
  LET sidereal_asc == (tropical_asc - ayanamsa) % Circle
      sign_num == sidereal_asc \div (30 * Res)
      degree_in_sign == sidereal_asc % (30 * Res)
  IN [ longitude |-> sidereal_asc,
       sign |-> ListGet(SIGNS, sign_num),
       sign_num |-> sign_num + 1,
       degree |-> degree_in_sign,
       degree_formatted |-> degree_formatted(degree_in_sign) ]

\* house i + 1 of the loop "for i in range(12)"
house_of(asc_sign, i) ==
  LET house_sign == (asc_sign + i) % 12
  IN [ house |-> i + 1,
       sign |-> ListGet(SIGNS, house_sign),
       sign_num |-> house_sign + 1,
       degree_start |-> house_sign * 30,
       degree_end |-> (house_sign + 1) * 30 ]

\* calculate_houses counting from the one-based sign number
calculate_houses_one_based(tropical_asc, ayanamsa) ==
  LET ascendant == calculate_ascendant(tropical_asc, ayanamsa)
      asc_sign == ascendant.sign_num
  IN [ n \in 1..12 |-> house_of(asc_sign, n - 1) ]

\* calculate_houses, which calls calculate_ascendant again
calculate_houses(tropical_asc, ayanamsa) ==
  LET ascendant == calculate_ascendant(tropical_asc, ayanamsa)
      asc_sign == ascendant.sign_num - 1
  IN [ n \in 1..12 |-> house_of(asc_sign, n - 1) ]

\* planet_data['nakshatra'] = calculate_nakshatra(planet_data['longitude'])
with_nakshatra(planet_data) ==
  planet_data @@ [ nakshatra |-> nakshatra_of[planet_data.longitude] ]

\* ketu_position with the reduction mod 360 forgotten
ketu_position_unreduced(planets_so_far) ==
  LET rahu_pos == planets_so_far["Rahu"].longitude
      ketu_long == rahu_pos + 180 * Res
      sign_num == ketu_long \div (30 * Res)
      degree_in_sign == ketu_long % (30 * Res)
  IN [ longitude |-> ketu_long,
       sign |-> ListGet(SIGNS, sign_num),
       sign_num |-> sign_num + 1,
       degree |-> degree_in_sign,
       degree_formatted |-> degree_formatted(degree_in_sign),
       nakshatra |-> nakshatra_of[ketu_long] ]

\* lines 151-164: Ketu from the Rahu already in planets
ketu_position(planets_so_far) ==
  LET rahu_pos == planets_so_far["Rahu"].longitude
      ketu_long == (rahu_pos + 180 * Res) % Circle
      sign_num == ketu_long \div (30 * Res)
      degree_in_sign == ketu_long % (30 * Res)
  IN [ longitude |-> ketu_long,
       sign |-> ListGet(SIGNS, sign_num),
       sign_num |-> sign_num + 1,
       degree |-> degree_in_sign,
       degree_formatted |-> degree_formatted(degree_in_sign),
       nakshatra |-> nakshatra_of[ketu_long] ]

\* the datetime object itself where isoformat() should have made a string
isoformat_keeps_datetime(dt) == dt

\* birth_datetime.isoformat(): the string, kept as the numbers it spells
isoformat(dt) == [ isoformat |-> dt.t, utcoffset |-> dt.aware ]

\* lines 225-242 of calculate_vimshottari_dasha: TypeError, or the dict
dasha_result(dashas_built, birth_datetime, clock) ==
  LET current_dasha == current_loop(1, dashas_built, now_for(birth_datetime, clock))
  IN IF current_dasha = TypeError THEN TypeError
     ELSE [ system |-> "Vimshottari",
            periods |-> dashas_built,
            current_mahadasha |-> current_dasha ]

\* calculate_vimshottari_dasha counting the periods from the clock instead
\* of the birth
calculate_vimshottari_dasha_from_now(birth_datetime, moon_nakshatra, clock) ==
  dasha_result(dasha_periods([ t |-> clock, aware |-> birth_datetime.aware ],
                             moon_nakshatra),
               birth_datetime, clock)

\* the whole of calculate_vimshottari_dasha, clock being what the system
\* clock shows when it is read
calculate_vimshottari_dasha(birth_datetime, moon_nakshatra, clock) ==
  dasha_result(dasha_periods(birth_datetime, moon_nakshatra), birth_datetime, clock)

\* -------------------------------------------------- divisional chart engine
\* the dict every calculate_dN method returns; degree is in grid units
divisional_position(sign_index, degree) ==
  [ sign |-> ListGet(SIGNS, sign_index),
    sign_num |-> sign_index + 1,
    degree |-> degree,
    degree_formatted |-> degree_formatted(degree) ]

\* the 'D1' lambda with the sign number left zero-based
calculate_d1_zero_based(x) ==
  [ sign |-> ListGet(SIGNS, x \div (30 * Res)),
    sign_num |-> x \div (30 * Res),
    degree |-> x % (30 * Res),
    degree_formatted |-> degree_formatted(x % (30 * Res)) ]

\* the 'D1' lambda of method_map
calculate_d1(x) ==
  [ sign |-> ListGet(SIGNS, x \div (30 * Res)),
    sign_num |-> x \div (30 * Res) + 1,
    degree |-> x % (30 * Res),
    degree_formatted |-> degree_formatted(x % (30 * Res)) ]

\* f"{int(d)}°{int((d % 1) * 60)}'" for a degree d that is a float
float_degree_formatted(d) ==
  LET \* int(x) for a float x >= 0
      float_int(x) == float_floor_div(x, float_of_int(1))
  IN << float_int(d),
        float_int(float_mul_int(float_mod(d, float_of_int(1)), 60)) >>

\* 30/9, rounded to a float
navamsa_length == float_of_ratio(30, 9)

\* calculate_d9_navamsa with the offsets of the fixed and the dual signs
\* exchanged (the offsets of D16)
calculate_d9_navamsa_d16_offsets(longitude) ==
  LET \* lines 54-68, sign, navamsa_in_sign and the degree computed
      navamsa(sign, navamsa_in_sign, degree_within_navamsa) ==
        LET sign_type == sign % 3
            navamsa_sign ==
              IF sign_type = 0 THEN (sign + navamsa_in_sign) % 12
              ELSE IF sign_type = 1 THEN (sign + 4 + navamsa_in_sign) % 12
              ELSE (sign + 8 + navamsa_in_sign) % 12
        IN [ sign |-> ListGet(SIGNS, navamsa_sign),
             sign_num |-> navamsa_sign + 1,
             degree |-> degree_within_navamsa,
             degree_formatted |->
               float_degree_formatted(degree_within_navamsa) ]
      \* lines 47 and 61 at sign and degree_in_sign
      navamsa_in(sign, degree_in_sign) ==
        navamsa(sign, float_div_int(degree_in_sign, navamsa_length),
                float_mul_int(float_mod(degree_in_sign, navamsa_length), 9))
      \* lines 43-44 at the float x of longitude
      navamsa_at(x) ==
        navamsa_in(float_div_int(x, float_of_int(30)),
                   float_mod(x, float_of_int(30)))
  IN navamsa_at(grid_float(longitude))

\* the divisor 30/9 is not an exact float: the division index and the
\* degree within the navamsa are computed in floating point, and the degree
\* returned is a float
calculate_d9_navamsa(longitude) ==
  LET \* lines 54-68, sign, navamsa_in_sign and the degree computed
      navamsa(sign, navamsa_in_sign, degree_within_navamsa) ==
        LET sign_type == sign % 3
            navamsa_sign ==
              IF sign_type = 0 THEN (sign + navamsa_in_sign) % 12
              ELSE IF sign_type = 1 THEN (sign + 8 + navamsa_in_sign) % 12
              ELSE (sign + 4 + navamsa_in_sign) % 12
        IN [ sign |-> ListGet(SIGNS, navamsa_sign),
             sign_num |-> navamsa_sign + 1,
             degree |-> degree_within_navamsa,
             degree_formatted |->
               float_degree_formatted(degree_within_navamsa) ]
      \* lines 47 and 61 at sign and degree_in_sign
      navamsa_in(sign, degree_in_sign) ==
        navamsa(sign, float_div_int(degree_in_sign, navamsa_length),
                float_mul_int(float_mod(degree_in_sign, navamsa_length), 9))
      \* lines 43-44 at the float x of longitude
      navamsa_at(x) ==
        navamsa_in(float_div_int(x, float_of_int(30)),
                   float_mod(x, float_of_int(30)))
  IN navamsa_at(grid_float(longitude))

\* calculate_d9_navamsa at every longitude of the grid
navamsa_of == [ longitude \in Longitudes |-> calculate_d9_navamsa(longitude) ]

calculate_d10_dasamsa(longitude) ==
  LET sign == longitude \div (30 * Res)
      degree_in_sign == longitude % (30 * Res)
      dasamsa_in_sign == degree_in_sign \div (3 * Res)
      dasamsa_sign ==
        IF sign % 2 = 0 THEN (sign + dasamsa_in_sign) % 12
        ELSE (sign + 8 + dasamsa_in_sign) % 12
      degree_within_dasamsa == (degree_in_sign % (3 * Res)) * 10
  IN divisional_position(dasamsa_sign, degree_within_dasamsa)

calculate_d7_saptamsa(longitude) ==
  LET sign == longitude \div (30 * Res)
      degree_in_sign == longitude % (30 * Res)
      saptamsa_in_sign == (7 * degree_in_sign) \div (30 * Res)
      saptamsa_sign ==
        IF sign % 2 = 0 THEN (sign + saptamsa_in_sign) % 12
        ELSE (sign + 6 + saptamsa_in_sign) % 12
      degree_within_saptamsa == (7 * degree_in_sign) % (30 * Res)
  IN divisional_position(saptamsa_sign, degree_within_saptamsa)

\* 2.5 degrees is 5*Res/2 grid units
calculate_d12_dwadasamsa(longitude) ==
  LET sign == longitude \div (30 * Res)
      degree_in_sign == longitude % (30 * Res)
      dwadasamsa_in_sign == (2 * degree_in_sign) \div (5 * Res)
      dwadasamsa_sign == (sign + dwadasamsa_in_sign) % 12
      degree_within_dwadasamsa == ((2 * degree_in_sign) % (5 * Res)) * 6
  IN divisional_position(dwadasamsa_sign, degree_within_dwadasamsa)

\* 1.875 degrees is 15*Res/8 grid units
calculate_d16_shodasamsa(longitude) ==
  LET sign == longitude \div (30 * Res)
      degree_in_sign == longitude % (30 * Res)
      shodasamsa_in_sign == (8 * degree_in_sign) \div (15 * Res)
      sign_type == sign % 3
      shodasamsa_sign ==
        IF sign_type = 0 THEN (sign + shodasamsa_in_sign) % 12
        ELSE IF sign_type = 1 THEN (sign + 4 + shodasamsa_in_sign) % 12
        ELSE (sign + 8 + shodasamsa_in_sign) % 12
      degree_within_shodasamsa == ((8 * degree_in_sign) % (15 * Res)) * 2
  IN divisional_position(shodasamsa_sign, degree_within_shodasamsa)

\* calculate_d20_vimsamsa counting from the natal sign, as D16 does
calculate_d20_vimsamsa_from_natal_sign(longitude) ==
  LET sign == longitude \div (30 * Res)
      degree_in_sign == longitude % (30 * Res)
      vimsamsa_in_sign == (2 * degree_in_sign) \div (3 * Res)
      sign_type == sign % 3
      vimsamsa_sign ==
        IF sign_type = 0 THEN (sign + 0 + vimsamsa_in_sign) % 12
        ELSE IF sign_type = 1 THEN (sign + 8 + vimsamsa_in_sign) % 12
        ELSE (sign + 4 + vimsamsa_in_sign) % 12
      degree_within_vimsamsa == ((2 * degree_in_sign) % (3 * Res)) * 10
  IN divisional_position(vimsamsa_sign, degree_within_vimsamsa)

\* 1.5 degrees is 3*Res/2 grid units
calculate_d20_vimsamsa(longitude) ==
  LET sign == longitude \div (30 * Res)
      degree_in_sign == longitude % (30 * Res)
      vimsamsa_in_sign == (2 * degree_in_sign) \div (3 * Res)
      sign_type == sign % 3
      vimsamsa_sign ==
        IF sign_type = 0 THEN (0 + vimsamsa_in_sign) % 12
        ELSE IF sign_type = 1 THEN (8 + vimsamsa_in_sign) % 12
        ELSE (4 + vimsamsa_in_sign) % 12
      degree_within_vimsamsa == ((2 * degree_in_sign) % (3 * Res)) * 10
  IN divisional_position(vimsamsa_sign, degree_within_vimsamsa)

\* 1.25 degrees is 5*Res/4 grid units
calculate_d24_chaturvimsamsa(longitude) ==
  LET sign == longitude \div (30 * Res)
      degree_in_sign == longitude % (30 * Res)
      chaturvimsamsa_in_sign == (4 * degree_in_sign) \div (5 * Res)
      chaturvimsamsa_sign ==
        IF sign % 2 = 0 THEN (4 + chaturvimsamsa_in_sign) % 12
        ELSE (3 + chaturvimsamsa_in_sign) % 12
      degree_within_chaturvimsamsa == ((4 * degree_in_sign) % (5 * Res)) * 6
  IN divisional_position(chaturvimsamsa_sign, degree_within_chaturvimsamsa)

\* calculate_d30_trimsamsa with a degree on a boundary put in the segment
\* below it
calculate_d30_trimsamsa_lower_segment(longitude) ==
  LET sign == longitude \div (30 * Res)
      degree_in_sign == longitude % (30 * Res)
      trimsamsa_sign ==
        IF sign % 2 = 0
        THEN IF degree_in_sign <= 5 * Res THEN (sign + 0) % 12
             ELSE IF degree_in_sign <= 10 * Res THEN (sign + 6) % 12
             ELSE IF degree_in_sign <= 18 * Res THEN (sign + 8) % 12
             ELSE IF degree_in_sign <= 25 * Res THEN (sign + 2) % 12
             ELSE (sign + 4) % 12
        ELSE IF degree_in_sign <= 5 * Res THEN (sign + 4) % 12
             ELSE IF degree_in_sign <= 12 * Res THEN (sign + 2) % 12
             ELSE IF degree_in_sign <= 20 * Res THEN (sign + 8) % 12
             ELSE IF degree_in_sign <= 25 * Res THEN (sign + 6) % 12
             ELSE (sign + 0) % 12
      degree_within_trimsamsa == (degree_in_sign % Res) * 30
  IN divisional_position(trimsamsa_sign, degree_within_trimsamsa)

calculate_d30_trimsamsa(longitude) ==
  LET sign == longitude \div (30 * Res)
      degree_in_sign == longitude % (30 * Res)
      trimsamsa_sign ==
        IF sign % 2 = 0
        THEN IF degree_in_sign < 5 * Res THEN (sign + 0) % 12
             ELSE IF degree_in_sign < 10 * Res THEN (sign + 6) % 12
             ELSE IF degree_in_sign < 18 * Res THEN (sign + 8) % 12
             ELSE IF degree_in_sign < 25 * Res THEN (sign + 2) % 12
             ELSE (sign + 4) % 12
        ELSE IF degree_in_sign < 5 * Res THEN (sign + 4) % 12
             ELSE IF degree_in_sign < 12 * Res THEN (sign + 2) % 12
             ELSE IF degree_in_sign < 20 * Res THEN (sign + 8) % 12
             ELSE IF degree_in_sign < 25 * Res THEN (sign + 6) % 12
             ELSE (sign + 0) % 12
      degree_within_trimsamsa == (degree_in_sign % Res) * 30
  IN divisional_position(trimsamsa_sign, degree_within_trimsamsa)

\* 0.5 degrees is Res/2 grid units
calculate_d60_shashtiamsa(longitude) ==
  LET sign == longitude \div (30 * Res)
      degree_in_sign == longitude % (30 * Res)
      shashtiamsa_in_sign == (2 * degree_in_sign) \div Res
      shashtiamsa_sign == (sign + shashtiamsa_in_sign) % 12
      degree_within_shashtiamsa == ((2 * degree_in_sign) % Res) * 30
  IN divisional_position(shashtiamsa_sign, degree_within_shashtiamsa)

\* the keys of CHART_INFO with their names
CHART_INFO ==
  [ D1 |-> "Rasi", D2 |-> "Hora", D3 |-> "Drekkana", D4 |-> "Chaturthamsa",
    D7 |-> "Saptamsa", D9 |-> "Navamsa", D10 |-> "Dasamsa",
    D12 |-> "Dwadasamsa", D16 |-> "Shodasamsa", D20 |-> "Vimsamsa",
    D24 |-> "Chaturvimsamsa", D27 |-> "Bhamsa", D30 |-> "Trimsamsa",
    D40 |-> "Khavedamsa", D45 |-> "Akshavedamsa", D60 |-> "Shashtiamsa" ]

\* method_map with an entry for every chart CHART_INFO lists
method_map_keys_all_listed ==
  { "D1", "D2", "D3", "D4", "D7", "D9", "D10", "D12", "D16", "D20", "D24",
    "D27", "D30", "D40", "D45", "D60" }

\* the keys of method_map in calculate_divisional_chart
method_map_keys ==
  { "D1", "D7", "D9", "D10", "D12", "D16", "D20", "D24", "D30", "D60" }

\* method_map[chart_type](longitude), for a chart_type in method_map
calculation_method(chart_type, longitude) ==
  CASE chart_type = "D1" -> calculate_d1(longitude)
    [] chart_type = "D7" -> calculate_d7_saptamsa(longitude)
    [] chart_type = "D9" -> navamsa_of[longitude]
    [] chart_type = "D10" -> calculate_d10_dasamsa(longitude)
    [] chart_type = "D12" -> calculate_d12_dwadasamsa(longitude)
    [] chart_type = "D16" -> calculate_d16_shodasamsa(longitude)
    [] chart_type = "D20" -> calculate_d20_vimsamsa(longitude)
    [] chart_type = "D24" -> calculate_d24_chaturvimsamsa(longitude)
    [] chart_type = "D30" -> calculate_d30_trimsamsa(longitude)
    [] chart_type = "D60" -> calculate_d60_shashtiamsa(longitude)
    [] OTHER -> [ raised |-> "KeyError" ]

\* lines 340-345: the dict returned once every planet is placed
divisional_chart(chart_type, divisional_positions) ==
  [ chart_type |-> chart_type,
    name |-> IF chart_type \in DOMAIN CHART_INFO
             THEN CHART_INFO[chart_type] ELSE chart_type,
    positions |-> divisional_positions ]

\* the whole of calculate_divisional_chart: ValueError for a chart type that
\* is not in method_map, else the chart of every planet of planet_positions
calculate_divisional_chart(chart_type, planet_positions) ==
  IF chart_type \notin method_map_keys THEN ValueError
  ELSE divisional_chart(chart_type,
         [ planet \in DOMAIN planet_positions |->
             calculation_method(chart_type, planet_positions[planet].longitude) ])

\* ------------------------------------------------------------ yoga detector
\* planets_in_conjunction without the zodiac wrap-around
planets_in_conjunction_no_wrap(planet1_data, planet2_data, orb) ==
  LET long1 == planet1_data.longitude
      long2 == planet2_data.longitude
      diff == IF long1 >= long2 THEN long1 - long2 ELSE long2 - long1
  IN diff <= orb

\* orb is in grid units
planets_in_conjunction(planet1_data, planet2_data, orb) ==
  LET long1 == planet1_data.longitude
      long2 == planet2_data.longitude
      abs_diff == IF long1 >= long2 THEN long1 - long2 ELSE long2 - long1
      diff == IF abs_diff > 180 * Res THEN Circle - abs_diff ELSE abs_diff
  IN diff <= orb

\* None where the code expects a planet name or a sign name
NoName == "None"

\* class tables of YogaDetector
EXALTATION ==
  [ Sun |-> "Aries", Moon |-> "Taurus", Mars |-> "Capricorn",
    Mercury |-> "Virgo", Jupiter |-> "Cancer", Venus |-> "Pisces",
    Saturn |-> "Libra", Rahu |-> "Taurus", Ketu |-> "Scorpio" ]

DEBILITATION ==
  [ Sun |-> "Libra", Moon |-> "Scorpio", Mars |-> "Cancer",
    Mercury |-> "Pisces", Jupiter |-> "Capricorn", Venus |-> "Virgo",
    Saturn |-> "Aries", Rahu |-> "Scorpio", Ketu |-> "Taurus" ]

OWN_SIGNS ==
  [ Sun |-> << "Leo" >>,
    Moon |-> << "Cancer" >>,
    Mars |-> << "Aries", "Scorpio" >>,
    Mercury |-> << "Gemini", "Virgo" >>,
    Jupiter |-> << "Sagittarius", "Pisces" >>,
    Venus |-> << "Taurus", "Libra" >>,
    Saturn |-> << "Capricorn", "Aquarius" >>,
    Rahu |-> << >>,
    Ketu |-> << >> ]

KENDRA_HOUSES == << 1, 4, 7, 10 >>

TRIKONA_HOUSES == << 1, 5, 9 >>

\* x in list
In(x, list) == \E n \in 1..Len(list) : list[n] = x

\* the keys of the dict planets in the order planets.items() yields them:
\* the insertion order of calculate_chart, which a JSON file keeps
dict_keys(planets_dict) ==
  LET present(planet) == planet \in DOMAIN planets_dict
  IN SelectSeq(PLANETS, present)

\* the first house whose sign is the planet's sign, house 1 if there is none
get_planet_house(planet_data, houses) ==
  LET matching == { n \in 1..Len(houses) :
                      houses[n].sign_num = planet_data.sign_num }
  IN IF matching = {} THEN 1
     ELSE houses[CHOOSE n \in matching : \A m \in matching : n <= m].house

is_in_kendra(house) == In(house, KENDRA_HOUSES)

is_exalted(planet, sign) ==
  planet \in DOMAIN EXALTATION /\ EXALTATION[planet] = sign

is_debilitated(planet, sign) ==
  planet \in DOMAIN DEBILITATION /\ DEBILITATION[planet] = sign

is_in_own_sign(planet, sign) ==
  planet \in DOMAIN OWN_SIGNS /\ In(sign, OWN_SIGNS[planet])

\* lines 115-119 and 282-285: the first planet of OWN_SIGNS that owns sign
sign_lord(sign) ==
  LET \* the keys of OWN_SIGNS in the order OWN_SIGNS.items() yields them
      OWN_SIGNS_keys ==
        << "Sun", "Moon", "Mars", "Mercury", "Jupiter", "Venus", "Saturn", "Rahu",
           "Ketu" >>
      owners == { n \in 1..Len(OWN_SIGNS_keys) :
                    In(sign, OWN_SIGNS[OWN_SIGNS_keys[n]]) }
  IN IF owners = {} THEN NoName
     ELSE OWN_SIGNS_keys[CHOOSE n \in owners : \A m \in owners : n <= m]

get_house_lord(house_num, houses) ==
  LET found == { n \in 1..Len(houses) : houses[n].house = house_num }
      house_sign ==
        IF found = {} THEN NoName
        ELSE houses[CHOOSE n \in found : \A m \in found : n <= m].sign
  IN IF house_sign = NoName THEN NoName ELSE sign_lord(house_sign)

\* the default of the parameter orb, 10.0 degrees
default_orb == 10 * Res

\* the (lord, house_num) pairs of the houses of house_list whose lord exists
\* and is not excluded
house_lords(house_list, houses, excluded) ==
  LET candidates == [ n \in 1..Len(house_list) |->
                        << get_house_lord(house_list[n], houses), house_list[n] >> ]
      kept(pair) == pair[1] # NoName /\ pair[1] \notin excluded
  IN SelectSeq(candidates, kept)

\* the pairs (outer[i], inner[j]) in the order of two nested for loops
nested_pairs(outer, inner) ==
  [ n \in 1..(Len(outer) * Len(inner)) |->
      << outer[((n - 1) \div Len(inner)) + 1], inner[((n - 1) % Len(inner)) + 1] >> ]

\* a yoga dict; the f-string description is kept as its interpolated values
yoga(name, type, description, yoga_planets, strength, effects) ==
  [ name |-> name, type |-> type, description |-> description,
    planets |-> yoga_planets, strength |-> strength, effects |-> effects ]

raja_yoga_of(pair) ==
  yoga("Raja Yoga", "Prosperity",
       << pair[1][2], pair[1][1], pair[2][2], pair[2][1] >>,
       << pair[1][1], pair[2][1] >>, "Strong",
       "Power, authority, success, prosperity, recognition")

\* detect_raja_yoga with the test kendra_lord != trikona_lord left out
detect_raja_yoga_same_lord(planets_dict, houses) ==
  LET kendra_lords == house_lords(KENDRA_HOUSES, houses, { "Sun", "Moon" })
      trikona_lords == house_lords(TRIKONA_HOUSES, houses, { "Sun", "Moon" })
      forms(pair) ==
        /\ pair[1][1] \in DOMAIN planets_dict
        /\ pair[2][1] \in DOMAIN planets_dict
        /\ planets_in_conjunction(planets_dict[pair[1][1]],
                                  planets_dict[pair[2][1]], default_orb)
      formed == SelectSeq(nested_pairs(kendra_lords, trikona_lords), forms)
  IN [ n \in 1..Len(formed) |-> raja_yoga_of(formed[n]) ]

detect_raja_yoga(planets_dict, houses) ==
  LET kendra_lords == house_lords(KENDRA_HOUSES, houses, { "Sun", "Moon" })
      trikona_lords == house_lords(TRIKONA_HOUSES, houses, { "Sun", "Moon" })
      forms(pair) ==
        /\ pair[1][1] # pair[2][1]
        /\ pair[1][1] \in DOMAIN planets_dict
        /\ pair[2][1] \in DOMAIN planets_dict
        /\ planets_in_conjunction(planets_dict[pair[1][1]],
                                  planets_dict[pair[2][1]], default_orb)
      formed == SelectSeq(nested_pairs(kendra_lords, trikona_lords), forms)
  IN [ n \in 1..Len(formed) |-> raja_yoga_of(formed[n]) ]

\* the pairs (list[i], list[j]) with i < j in the order of
\* "for i, x in enumerate(list): for y in list[i+1:]"
later_pairs(list) ==
  LET ahead(pair) == pair[1][1] < pair[2][1]
      numbered == [ n \in 1..Len(list) |-> << n, list[n] >> ]
      chosen == SelectSeq(nested_pairs(numbered, numbered), ahead)
  IN [ n \in 1..Len(chosen) |-> << chosen[n][1][2], chosen[n][2][2] >> ]

detect_dhana_yoga(planets_dict, houses) ==
  LET wealth_houses == << 2, 5, 9, 11 >>
      wealth_lords == house_lords(wealth_houses, houses, {})
      forms(pair) ==
        /\ pair[1][1] # pair[2][1]
        /\ pair[1][1] \in DOMAIN planets_dict
        /\ pair[2][1] \in DOMAIN planets_dict
        /\ planets_in_conjunction(planets_dict[pair[1][1]],
                                  planets_dict[pair[2][1]], default_orb)
      formed == SelectSeq(later_pairs(wealth_lords), forms)
  IN [ n \in 1..Len(formed) |->
         yoga("Dhana Yoga", "Wealth",
              << formed[n][1][2], formed[n][1][1], formed[n][2][2], formed[n][2][1] >>,
              << formed[n][1][1], formed[n][2][1] >>, "Moderate",
              "Wealth accumulation, financial prosperity, material success") ]

gajakesari_yoga_of(house_diff) ==
  yoga("Gaja Kesari Yoga", "Prosperity", << house_diff >>,
       << "Jupiter", "Moon" >>, "Very Strong",
       "Wisdom, wealth, good character, respect, leadership qualities, longevity")

\* detect_gajakesari_yoga counting the Moon's own house as the first
detect_gajakesari_yoga_inclusive(planets_dict, houses) ==
  IF "Jupiter" \notin DOMAIN planets_dict \/ "Moon" \notin DOMAIN planets_dict
  THEN << >>
  ELSE LET moon_house == get_planet_house(planets_dict["Moon"], houses)
           jupiter_house == get_planet_house(planets_dict["Jupiter"], houses)
           house_diff == ((jupiter_house - moon_house) % 12) + 1
       IN IF house_diff \in { 1, 4, 7, 10 }
          THEN << gajakesari_yoga_of(house_diff) >>
          ELSE << >>

detect_gajakesari_yoga(planets_dict, houses) ==
  IF "Jupiter" \notin DOMAIN planets_dict \/ "Moon" \notin DOMAIN planets_dict
  THEN << >>
  ELSE LET moon_house == get_planet_house(planets_dict["Moon"], houses)
           jupiter_house == get_planet_house(planets_dict["Jupiter"], houses)
           raw_diff == (jupiter_house - moon_house) % 12
           house_diff == IF raw_diff = 0 THEN 12 ELSE raw_diff
       IN IF house_diff \in { 1, 4, 7, 10 }
          THEN << gajakesari_yoga_of(house_diff) >>
          ELSE << >>

\* the dict yoga_planets of detect_pancha_mahapurusha_yogas in items() order
mahapurusha_planets ==
  << << "Mars", "Ruchaka Yoga", "Courage, leadership, physical strength" >>,
     << "Mercury", "Bhadra Yoga", "Intelligence, eloquence, learning" >>,
     << "Jupiter", "Hamsa Yoga", "Wisdom, righteousness, spirituality" >>,
     << "Venus", "Malavya Yoga", "Beauty, luxury, artistic talents" >>,
     << "Saturn", "Sasa Yoga", "Authority, discipline, longevity" >> >>

mahapurusha_yoga_of(item, planets_dict, houses) ==
  LET planet_data == planets_dict[item[1]]
  IN yoga(item[2], "Mahapurusha",
          << item[1], planet_data.sign, get_planet_house(planet_data, houses) >>,
          << item[1] >>, "Very Strong", item[3])

\* detect_pancha_mahapurusha_yogas without the Kendra test
detect_pancha_mahapurusha_yogas_any_house(planets_dict, houses) ==
  LET forms(item) ==
        /\ item[1] \in DOMAIN planets_dict
        /\ \/ is_in_own_sign(item[1], planets_dict[item[1]].sign)
           \/ is_exalted(item[1], planets_dict[item[1]].sign)
      formed == SelectSeq(mahapurusha_planets, forms)
  IN [ n \in 1..Len(formed) |-> mahapurusha_yoga_of(formed[n], planets_dict, houses) ]

detect_pancha_mahapurusha_yogas(planets_dict, houses) ==
  LET forms(item) ==
        /\ item[1] \in DOMAIN planets_dict
        /\ is_in_kendra(get_planet_house(planets_dict[item[1]], houses))
        /\ \/ is_in_own_sign(item[1], planets_dict[item[1]].sign)
           \/ is_exalted(item[1], planets_dict[item[1]].sign)
      formed == SelectSeq(mahapurusha_planets, forms)
  IN [ n \in 1..Len(formed) |-> mahapurusha_yoga_of(formed[n], planets_dict, houses) ]

neecha_bhanga_yoga_of(planet, planets_dict) ==
  LET planet_sign == planets_dict[planet].sign
      debil_lord == sign_lord(planet_sign)
  IN yoga("Neecha Bhanga Raja Yoga", "Cancellation",
          << planet, planet_sign, debil_lord >>,
          << planet, debil_lord >>, "Strong",
          "Transformation of weakness into strength, unexpected rise, overcoming obstacles")

\* detect_neecha_bhanga_raja_yoga skipping only the Ascendant
detect_neecha_bhanga_raja_yoga_with_nodes(planets_dict, houses) ==
  LET forms(planet) ==
        /\ planet \notin { "Ascendant" }
        /\ is_debilitated(planet, planets_dict[planet].sign)
        /\ LET debil_lord == sign_lord(planets_dict[planet].sign)
           IN /\ debil_lord # NoName
              /\ debil_lord \in DOMAIN planets_dict
              /\ is_in_kendra(get_planet_house(planets_dict[debil_lord], houses))
      formed == SelectSeq(dict_keys(planets_dict), forms)
  IN [ n \in 1..Len(formed) |-> neecha_bhanga_yoga_of(formed[n], planets_dict) ]

detect_neecha_bhanga_raja_yoga(planets_dict, houses) ==
  LET forms(planet) ==
        /\ planet \notin { "Rahu", "Ketu", "Ascendant" }
        /\ is_debilitated(planet, planets_dict[planet].sign)
        /\ LET debil_lord == sign_lord(planets_dict[planet].sign)
           IN /\ debil_lord # NoName
              /\ debil_lord \in DOMAIN planets_dict
              /\ is_in_kendra(get_planet_house(planets_dict[debil_lord], houses))
      formed == SelectSeq(dict_keys(planets_dict), forms)
  IN [ n \in 1..Len(formed) |-> neecha_bhanga_yoga_of(formed[n], planets_dict) ]

\* lines 316-332: degree_diff is the plain absolute difference of the two
\* longitudes, not reduced over the 0/360 boundary
detect_budhaditya_yoga(planets_dict) ==
  IF /\ "Sun" \in DOMAIN planets_dict
     /\ "Mercury" \in DOMAIN planets_dict
     /\ planets_in_conjunction(planets_dict["Sun"], planets_dict["Mercury"], 15 * Res)
  THEN LET sun_long == planets_dict["Sun"].longitude
           mercury_long == planets_dict["Mercury"].longitude
           degree_diff == IF sun_long >= mercury_long
                          THEN sun_long - mercury_long
                          ELSE mercury_long - sun_long
           combust == degree_diff < 3 * Res
       IN << yoga("Budhaditya Yoga", "Intelligence",
                  << planets_dict["Sun"].sign >>,
                  << "Sun", "Mercury" >>,
                  IF combust THEN "Weak (Combust)" ELSE "Moderate",
                  IF combust
                  THEN "Intelligence, learning, communication skills, but Mercury is combust (weakened)"
                  ELSE "Intelligence, learning, communication skills") >>
  ELSE << >>

\* KeyError raised by planets[name] for a name that is not in the dict; a
\* rule that raises it hands it on in place of its list
KeyError == [ raised |-> "KeyError" ]

\* whether the call of a rule ended in an exception
Raised(found) == \E n \in 1..Len(found) : found[n] = KeyError

\* detect_chandra_mangala_yoga without the test that both planets are there
detect_chandra_mangala_yoga_unguarded(planets_dict) ==
  IF "Moon" \notin DOMAIN planets_dict \/ "Mars" \notin DOMAIN planets_dict
  THEN << KeyError >>
  ELSE IF planets_in_conjunction(planets_dict["Moon"], planets_dict["Mars"],
                                 default_orb)
       THEN << yoga("Chandra Mangala Yoga", "Wealth",
                    << planets_dict["Moon"].sign >>,
                    << "Moon", "Mars" >>, "Moderate",
                    "Wealth through property, mother, courage with emotions") >>
       ELSE << >>

detect_chandra_mangala_yoga(planets_dict) ==
  IF /\ "Moon" \in DOMAIN planets_dict
     /\ "Mars" \in DOMAIN planets_dict
     /\ planets_in_conjunction(planets_dict["Moon"], planets_dict["Mars"],
                               default_orb)
  THEN << yoga("Chandra Mangala Yoga", "Wealth",
               << planets_dict["Moon"].sign >>,
               << "Moon", "Mars" >>, "Moderate",
               "Wealth through property, mother, courage with emotions") >>
  ELSE << >>

\* lines 372-378: the rules in the order detect_all_yogas calls them
detect_rules == 
  << "detect_raja_yoga", "detect_dhana_yoga", "detect_gajakesari_yoga",
     "detect_pancha_mahapurusha_yogas", "detect_neecha_bhanga_raja_yoga",
     "detect_budhaditya_yoga", "detect_chandra_mangala_yoga" >>

\* the call of one rule on the chart's planets and houses
detect_rule(rule, planets_dict, houses) ==
  CASE rule = "detect_raja_yoga" -> detect_raja_yoga(planets_dict, houses)
    [] rule = "detect_dhana_yoga" -> detect_dhana_yoga(planets_dict, houses)
    [] rule = "detect_gajakesari_yoga" -> detect_gajakesari_yoga(planets_dict, houses)
    [] rule = "detect_pancha_mahapurusha_yogas" ->
         detect_pancha_mahapurusha_yogas(planets_dict, houses)
    [] rule = "detect_neecha_bhanga_raja_yoga" ->
         detect_neecha_bhanga_raja_yoga(planets_dict, houses)
    [] rule = "detect_budhaditya_yoga" -> detect_budhaditya_yoga(planets_dict)
    [] rule = "detect_chandra_mangala_yoga" -> detect_chandra_mangala_yoga(planets_dict)

\* str.lower on the type strings the rules use
lower(type) ==
  CASE type = "Prosperity" -> "prosperity"
    [] type = "Wealth" -> "wealth"
    [] type = "Intelligence" -> "intelligence"
    [] type = "Mahapurusha" -> "mahapurusha"
    [] type = "Cancellation" -> "cancellation"
    [] OTHER -> type

\* the if/elif chain of lines 392-403 with the mahapurusha branch missing
category_of_no_mahapurusha(yoga_record) ==
  LET yoga_type == lower(yoga_record.type)
  IN IF yoga_type \in { "prosperity", "wealth", "intelligence", "cancellation" }
     THEN yoga_type
     ELSE "other"

\* the if/elif chain of lines 392-403: the bucket a yoga is appended to
category_of(yoga_record) ==
  LET yoga_type == lower(yoga_record.type)
  IN IF yoga_type \in { "prosperity", "wealth", "intelligence", "mahapurusha",
                        "cancellation" }
     THEN yoga_type
     ELSE "other"

\* lines 381-403: categorized after the loop over all_yogas
categorize(yogas) ==
  LET \* the keys of the dict categorized
      category_keys ==
        { "prosperity", "wealth", "intelligence", "mahapurusha", "cancellation",
          "other" }
  IN [ key \in category_keys |->
         LET belongs(yoga_record) == category_of(yoga_record) = key
         IN SelectSeq(yogas, belongs) ]

\* lines 405-409: the report detect_all_yogas returns
yoga_report(yogas, categorized) ==
  [ total_yogas |-> Len(yogas),
    all_yogas |-> yogas,
    by_category |-> categorized ]

\* ---------------------------------------------------------------- chart files
\* json.dump(..., default=str) on one value of the chart: a string goes to
\* the file as it is, an object json cannot serialize goes through str
json_default(value) ==
  LET \* whether a value of the chart is a datetime object
      is_datetime(x) == "t" \in DOMAIN x
      \* str(datetime), what json.dump's default=str makes of a datetime object:
      \* the date and time with a space where isoformat() puts a 'T'
      str_datetime(dt) == [ str |-> dt.t, utcoffset |-> dt.aware ]
  IN IF is_datetime(value) THEN str_datetime(value) ELSE value

\* lines 163-170: the JSON value written for data_to_save; numbers, strings,
\* lists, dicts with string keys and None are written as they are
json_dump(data_to_save) ==
  [ chart |-> [ data_to_save.chart EXCEPT
                  !.birth_datetime = json_default(@) ],
    yogas |-> data_to_save.yogas ]

\* line 160: the file name, from the chart's name and today's date
chart_filename(chart, today) ==
  LET \* str.replace(' ', '_') on the names entered
      replace_spaces(name) == IF name = "A B" THEN "A_B" ELSE name
  IN << replace_spaces(chart.name), today >>

\* ===================================================================== state
VARIABLES
  pc,                    \* position of the call in progress, "idle" if none
  args,                  \* arguments and loop counters of the call in progress
  planets,               \* calculate_chart: the dict planets built so far
  dashas,                \* calculate_vimshottari_dasha: the list dashas
  divisional_positions,  \* calculate_divisional_chart: the dict built so far
  charts,                \* get_all_divisional_charts: the dict charts
  ret,                   \* what the last finished call returned or raised
  all_yogas,             \* detect_all_yogas: the list all_yogas
  cli,                   \* AstroCLI: where the application stands
  current_chart,         \* AstroCLI.current_chart
  current_yogas,         \* AstroCLI.current_yogas
  charts_dir,            \* the files of ~/.astrohaze/charts, by file name
  previous               \* the call finished before the last one

\* the fields of AstroCLI and the directory it writes to
cli_vars == << cli, current_chart, current_yogas, charts_dir >>

vars == << pc, args, planets, dashas, divisional_positions, charts, ret,
           all_yogas, cli_vars, previous >>

\* no method of AstroCLI is running
CliReady == [ at |-> "ready" ]

NoArgs == [ op |-> "none" ]
NoReturn == [ op |-> "none" ]

\* d[k] = v on a dict
Put(d, k, v) == [ x \in (DOMAIN d) \cup {k} |-> IF x = k THEN v ELSE d[x] ]

\* the state after the objects are constructed: nothing called yet
Init ==
  /\ pc = "idle"
  /\ args = NoArgs
  /\ planets = << >>
  /\ dashas = << >>
  /\ divisional_positions = << >>
  /\ charts = << >>
  /\ ret = NoReturn
  /\ all_yogas = << >>
  /\ cli = CliReady
  /\ current_chart = None
  /\ current_yogas = None
  /\ charts_dir = << >>
  /\ previous = NoReturn

\* ------------------------------------------------------------ input samples
\* birth datetimes: every quarter day up to MaxBirthTime, naive and aware
BirthSamples == [ t : 0..MaxBirthTime, aware : BOOLEAN ]

\* the ephemeris is sampled one body at a time: in a run of calculate_chart
\* the body args.probe takes every longitude of the grid and the other
\* bodies stand at BaseLongitude
BaseLongitude ==
  [ Sun |-> 10 * Res, Moon |-> 100 * Res + 1, Mars |-> 200 * Res,
    Mercury |-> 22 * Res + 2, Jupiter |-> 280 * Res, Venus |-> 340 * Res,
    Saturn |-> 185 * Res, Rahu |-> 60 * Res, Ascendant |-> 130 * Res ]

\* two whole skies, used where a few complete charts are enough
FixedSkies ==
  [ sky1 |-> BaseLongitude,
    sky2 |-> [ Sun |-> 192 * Res, Moon |-> 178 * Res, Mars |-> 175 * Res,
               Mercury |-> 194 * Res, Jupiter |-> 190 * Res,
               Venus |-> 200 * Res, Saturn |-> 185 * Res, Rahu |-> 215 * Res,
               Ascendant |-> 29 * Res ] ]

EphemerisLongitudes(probe, body) ==
  IF probe \in DOMAIN FixedSkies THEN { FixedSkies[probe][body] }
  ELSE IF body = probe THEN Longitudes ELSE { BaseLongitude[body] }

\* the latitude and longitude of the birth place
LocationSamples == { [ latitude |-> 0, longitude |-> 0 ] }

\* the Lahiri ayanamsa of the birth moment
AyanamsaSamples == { 24 * Res }

\* ============================================================ chart assembler
\* VedicCalculator.calculate_chart is entered
CalculateChartBegin ==
  LET Probes == DOMAIN BaseLongitude
  IN /\ pc = "idle"
     /\ \E birth_datetime \in { b \in BirthSamples : b.t = 0 }, probe \in Probes,
           location \in LocationSamples :
          args' = [ op |-> "calculate_chart",
                    birth_datetime |-> birth_datetime,
                    location |-> location,
                    probe |-> probe,
                    tropical_asc |-> 0,
                    ayanamsa |-> 0,
                    ascendant_data |-> None,
                    i |-> 1 ]
     /\ pc' = "cc_ascendant"
     /\ UNCHANGED << planets, dashas, divisional_positions, charts, ret,
                     all_yogas, cli_vars, previous >>

\* lines 139-142: the ascendant from swe.houses and get_ayanamsa
CalculateChartAscendant ==
  /\ pc = "cc_ascendant"
  /\ \E tropical_asc \in EphemerisLongitudes(args.probe, "Ascendant"),
        ayanamsa \in AyanamsaSamples :
       args' = [ args EXCEPT
                   !.tropical_asc = tropical_asc,
                   !.ayanamsa = ayanamsa,
                   !.ascendant_data = calculate_ascendant(tropical_asc, ayanamsa) ]
  /\ pc' = "cc_planets"
  /\ UNCHANGED << planets, dashas, divisional_positions, charts, ret,
                  all_yogas, cli_vars, previous >>

\* lines 146-168: one iteration of the loop over PLANETS.items()
CalculateChartPlanet ==
  /\ pc = "cc_planets"
  /\ LET planet_name == PLANETS[args.i]
     IN \/ /\ planet_name = "Ascendant"
           /\ planets' = Put(planets, "Ascendant", with_nakshatra(args.ascendant_data))
        \/ /\ planet_name = "Ketu"
           /\ planets' = Put(planets, "Ketu", ketu_position(planets))
        \/ /\ planet_name \notin { "Ascendant", "Ketu" }
           /\ \E longitude \in EphemerisLongitudes(args.probe, planet_name) :
                planets' = Put(planets, planet_name,
                               with_nakshatra(calculate_planet_position(longitude)))
  /\ args' = [ args EXCEPT !.i = @ + 1 ]
  /\ pc' = IF args.i = Len(PLANETS) THEN "cc_finish" ELSE "cc_planets"
  /\ UNCHANGED << dashas, divisional_positions, charts, ret,
                  all_yogas, cli_vars, previous >>

\* an ephemeris call of calculate_chart raises: the exception leaves
\* calculate_chart and its locals are gone
CalculateChartEphemerisFails ==
  /\ \/ pc = "cc_ascendant"
     \/ pc = "cc_planets" /\ PLANETS[args.i] \notin { "Ascendant", "Ketu" }
     \/ pc = "cc_finish"
  /\ ret' = [ op |-> "calculate_chart", raised |-> EphemerisError ]
  /\ pc' = "returned"
  /\ args' = NoArgs
  /\ planets' = << >>
  /\ UNCHANGED << dashas, divisional_positions, charts,
                  all_yogas, cli_vars, previous >>

\* lines 171-184: the houses, the dasha schedule and the returned dict; the
\* TypeError of the dasha engine leaves calculate_chart
CalculateChartFinish ==
  LET \* the clock read by calculate_chart's dasha call: before the birth, inside
      \* the schedule and past its last period
      ChartClocks(birth_datetime) ==
        { birth_datetime.t - 4, birth_datetime.t + 4,
          birth_datetime.t + 121 * QuarterDaysPerYear }
  IN /\ pc = "cc_finish"
     /\ \E clock \in ChartClocks(args.birth_datetime) :
          LET houses == calculate_houses(args.tropical_asc, args.ayanamsa)
              moon_nakshatra == planets["Moon"].nakshatra
              dasha_info ==
                calculate_vimshottari_dasha(args.birth_datetime, moon_nakshatra, clock)
              called == [ op |-> "calculate_chart",
                          birth_datetime |-> args.birth_datetime,
                          ephemeris |->
                            [ tropical_asc |-> args.tropical_asc,
                              ayanamsa |-> args.ayanamsa,
                              longitudes |->
                                [ body \in DOMAIN planets \ { "Ketu", "Ascendant" } |->
                                    planets[body].longitude ] ],
                          clock |-> clock ]
          IN ret' = IF dasha_info = TypeError
                    THEN called @@ [ raised |-> TypeError ]
                    ELSE called @@ [
                           value |-> [ birth_datetime |-> isoformat(args.birth_datetime),
                                       location |-> args.location,
                                       ayanamsa |-> args.ayanamsa,
                                       planets |-> planets,
                                       houses |-> houses,
                                       dasha |-> dasha_info ] ]
     /\ pc' = "returned"
     /\ args' = NoArgs
     /\ planets' = << >>
     /\ UNCHANGED << dashas, divisional_positions, charts,
                     all_yogas, cli_vars, previous >>

\* VedicCalculator.calculate_houses called on its own
CalculateHouses ==
  /\ pc = "idle"
  /\ \E tropical_asc \in Longitudes, ayanamsa \in AyanamsaSamples :
       ret' = [ op |-> "calculate_houses",
                ascendant |-> calculate_ascendant(tropical_asc, ayanamsa),
                value |-> calculate_houses(tropical_asc, ayanamsa) ]
  /\ pc' = "returned"
  /\ UNCHANGED << args, planets, dashas, divisional_positions, charts,
                  all_yogas, cli_vars, previous >>

\* the caller has taken what the call returned or raised; the stateless
\* objects are ready for the next call
Return ==
  /\ pc = "returned"
  /\ cli = CliReady
  /\ pc' = "idle"
  /\ ret' = NoReturn
  /\ UNCHANGED << args, planets, dashas, divisional_positions, charts,
                  all_yogas, cli_vars, previous >>

Next ==
  \/ CalculateChartBegin
  \/ CalculateChartAscendant
  \/ CalculateChartPlanet
  \/ CalculateChartEphemerisFails
  \/ CalculateChartFinish
  \/ CalculateHouses
  \/ Return

Spec == Init /\ [][Next]_vars

\* ---------------------------------------------------------------- C1, C2
ChartReturned ==
  pc = "returned" /\ ret.op = "calculate_chart" /\ "value" \in DOMAIN ret

HousesReturned == pc = "returned" /\ ret.op = "calculate_houses"

\* C1: in every chart calculate_chart returns, Ketu's longitude lies in
\* [0,360) and is Rahu's longitude plus 180 degrees reduced mod 360, that is
\* Rahu + 180 when that is below 360 and Rahu - 180 otherwise
C1_KetuOppositeRahu ==
  ChartReturned =>
    LET rahu == ret.value.planets["Rahu"].longitude
        ketu == ret.value.planets["Ketu"].longitude
    IN /\ rahu \in Longitudes
       /\ ketu \in Longitudes
       /\ \/ rahu < 180 * Res /\ ketu = rahu + 180 * Res
          \/ rahu >= 180 * Res /\ ketu = rahu - 180 * Res

\* a chart whose Rahu stands on the last grid point below 360, so that the
\* sum passes 360 and is reduced
C1_Witness ==
  /\ ChartReturned
  /\ ret.value.planets["Rahu"].longitude = Circle - 1
  /\ ret.value.planets["Ketu"].longitude = 180 * Res - 1

\* the houses list numbers 1..12 from the ascendant's sign and holds every
\* sign once
WholeSignHouses(houses, ascendant) ==
  /\ DOMAIN houses = 1..12
  /\ houses[1].sign = ascendant.sign
  /\ \A n \in 1..12 :
       /\ houses[n].house = n
       /\ houses[n].sign_num - 1 = ((ascendant.sign_num - 1) + n - 1) % 12
       /\ houses[n].sign = SIGNS[houses[n].sign_num]
  /\ \A s \in 1..12 : Cardinality({ n \in 1..12 : houses[n].sign_num = s }) = 1
  /\ \A s \in 1..12 : Cardinality({ n \in 1..12 : houses[n].sign = SIGNS[s] }) = 1

\* C2: calculate_houses, called on its own or by calculate_chart, returns
\* 12 houses numbered 1..12, house n in the sign (ascendant sign + n - 1)
\* mod 12, every sign in exactly one house
C2_WholeSignHouses ==
  /\ HousesReturned => WholeSignHouses(ret.value, ret.ascendant)
  /\ ChartReturned =>
       WholeSignHouses(ret.value.houses, ret.value.planets["Ascendant"])

\* the ascendant in Pisces: the second house wraps to Aries
C2_Witness ==
  /\ HousesReturned
  /\ ret.ascendant.sign = "Pisces"
  /\ ret.value[2].sign = "Aries"
  /\ ret.value[12].sign = "Aquarius"

\* =============================================================== dasha engine
\* the Moon longitudes whose nakshatra is handed to the dasha engine
MoonSamples == { L \in Longitudes : L % (5 * Res) = 0 }

\* VedicCalculator.calculate_vimshottari_dasha is entered
DashaBegin ==
  /\ pc = "idle"
  /\ \E birth_datetime \in BirthSamples, moon_long \in MoonSamples :
       args' = [ op |-> "calculate_vimshottari_dasha",
                 birth_datetime |-> birth_datetime,
                 moon_nakshatra |-> nakshatra_of[moon_long] ]
  /\ pc' = "dasha_periods"
  /\ UNCHANGED << planets, dashas, divisional_positions, charts, ret,
                  all_yogas, cli_vars, previous >>

\* lines 189-223: the nine periods
DashaPeriods ==
  /\ pc = "dasha_periods"
  /\ dashas' = dasha_periods(args.birth_datetime, args.moon_nakshatra)
  /\ pc' = "dasha_current"
  /\ UNCHANGED << args, planets, divisional_positions, charts, ret,
                  all_yogas, cli_vars, previous >>

\* lines 225-242: the clock is read, the current period is looked for and
\* the dict is returned, or the comparison raises
DashaCurrent ==
  LET \* the instants the system clock shows: up to NowSlack quarter days around
      \* the birth, around the end of the 120 years and around the midnight of
      \* every reported period date
      NowSamples(birth_datetime, dashas_built) ==
        LET marks ==
              { birth_datetime.t, birth_datetime.t + 120 * QuarterDaysPerYear }
                \cup { 4 * dashas_built[k].start : k \in DOMAIN dashas_built }
                \cup { 4 * dashas_built[k].end : k \in DOMAIN dashas_built }
        IN { m + d : m \in marks, d \in (0 - NowSlack)..NowSlack }
  IN /\ pc = "dasha_current"
     /\ \E clock \in NowSamples(args.birth_datetime, dashas) :
          LET result == dasha_result(dashas, args.birth_datetime, clock)
              call == [ op |-> "calculate_vimshottari_dasha",
                        birth_datetime |-> args.birth_datetime,
                        moon_nakshatra |-> args.moon_nakshatra,
                        clock |-> clock ]
          IN ret' = IF result = TypeError
                    THEN call @@ [ raised |-> TypeError ]
                    ELSE call @@ [ value |-> result ]
     /\ pc' = "returned"
     /\ args' = NoArgs
     /\ dashas' = << >>
     /\ UNCHANGED << planets, divisional_positions, charts,
                     all_yogas, cli_vars, previous >>

NextDasha ==
  \/ DashaBegin
  \/ DashaPeriods
  \/ DashaCurrent
  \/ Return

SpecDasha == Init /\ [][NextDasha]_vars

\* ------------------------------------------------------------ C3, C4, C5
DashaGenerated == pc = "dasha_current"

DashaRaised ==
  pc = "returned" /\ ret.op = "calculate_vimshottari_dasha" /\ "raised" \in DOMAIN ret

DashaReturned ==
  pc = "returned" /\ ret.op = "calculate_vimshottari_dasha" /\ "value" \in DOMAIN ret

RECURSIVE SumYears(_, _)
SumYears(periods, k) ==
  IF k = 0 THEN 0 ELSE periods[k].years + SumYears(periods, k - 1)

\* nine periods, 120 years, the first starting on the birth day and each
\* next one starting on the day the one before ends
ContiguousPeriods(periods, birth_datetime) ==
  /\ Len(periods) = 9
  /\ SumYears(periods, Len(periods)) = 120
  /\ 4 * periods[1].start <= birth_datetime.t
  /\ birth_datetime.t < 4 * (periods[1].start + 1)
  /\ \A k \in 1..8 : periods[k + 1].start = periods[k].end
  /\ \A k \in 1..9 : periods[k].start < periods[k].end

\* C3: the periods calculate_vimshottari_dasha generates, and those it
\* returns, are 9 periods whose years sum to 120, the first starting at the
\* birth date and period i+1 starting on the reported end of period i
C3_NineContiguousPeriods ==
  /\ DashaGenerated => ContiguousPeriods(dashas, args.birth_datetime)
  /\ DashaReturned => ContiguousPeriods(ret.value.periods, ret.birth_datetime)

\* a schedule returned for a birth at 18:00 whose first lord is Venus: the
\* Sun period of 6 * 365.25 days begins 20 * 365.25 days after the birth
C3_Witness ==
  /\ DashaReturned
  /\ ret.birth_datetime.t = 3
  /\ ret.value.periods[1].lord = "Venus"
  /\ ret.value.periods[2].start = 7305
  /\ ret.value.periods[2].end = 7305 + 2192

\* the canonical order and the years of the claim
CanonicalLords ==
  << "Ketu", "Venus", "Sun", "Moon", "Mars", "Rahu", "Jupiter", "Saturn",
     "Mercury" >>

CanonicalYears == << 7, 20, 6, 10, 7, 18, 16, 19, 17 >>

\* periods is CanonicalLords rotated to begin with first_lord, each lord
\* with its years
RotatedFrom(periods, first_lord) ==
  /\ Len(periods) = 9
  /\ periods[1].lord = first_lord
  /\ \E r \in 0..8 :
       \A k \in 1..9 :
         /\ periods[k].lord = CanonicalLords[((r + k - 1) % 9) + 1]
         /\ periods[k].years = CanonicalYears[((r + k - 1) % 9) + 1]
  /\ \A c \in 1..9 :
       Cardinality({ k \in 1..9 : periods[k].lord = CanonicalLords[c] }) = 1

\* C4: the lords of the 9 periods are the canonical list rotated to start at
\* the birth Moon's nakshatra lord, every lord once and with its fixed years
C4_LordsRotatedFromMoonLord ==
  /\ DashaGenerated => RotatedFrom(dashas, args.moon_nakshatra.lord)
  /\ DashaReturned => RotatedFrom(ret.value.periods, ret.moon_nakshatra.lord)

\* the Moon in Revati, whose lord Mercury is last in the canonical list: the
\* second period wraps around to Ketu
C4_Witness ==
  /\ DashaReturned
  /\ ret.moon_nakshatra.nakshatra = "Revati"
  /\ ret.value.periods[1].lord = "Mercury"
  /\ ret.value.periods[2].lord = "Ketu"
  /\ ret.value.periods[9].lord = "Saturn"

\* C5, as claimed: calculate_vimshottari_dasha never raises, its
\* current_mahadasha is a period whose [start, end] holds the evaluation
\* instant, and it is None whenever that instant is before the birth instant
\* or after the end of the 120 years
C5_CurrentPeriodOrNone ==
  (pc = "returned" /\ ret.op = "calculate_vimshottari_dasha") =>
    /\ "raised" \notin DOMAIN ret
    /\ LET current == ret.value.current_mahadasha
           periods == ret.value.periods
           holds(k) == /\ 4 * periods[k].start <= ret.clock
                       /\ ret.clock <= 4 * periods[k].end
       IN /\ current # None =>
               \E k \in 1..9 : periods[k] = current /\ holds(k)
          /\ current = None => \A k \in 1..9 : ~ holds(k)
          /\ ( \/ ret.clock < ret.birth_datetime.t
               \/ ret.clock > ret.birth_datetime.t + 120 * QuarterDaysPerYear )
               => current = None

\* =========================================== normalizer and divisional engine
\* the chart type codes handed in: every key of CHART_INFO and two codes it
\* does not list
ChartCodes == (DOMAIN CHART_INFO) \cup { "D99", "d9" }

\* chart['planets'] restricted to the two nodes, Rahu at longitude
PlanetPositionsAt(longitude) ==
  LET rahu == with_nakshatra(calculate_planet_position(longitude))
  IN [ Rahu |-> rahu, Ketu |-> ketu_position([ Rahu |-> rahu ]) ]

\* the longitudes of the planet_positions handed to get_all_divisional_charts
SampleLongitudes == { 15 * Res, 200 * Res + 1 }

\* the first planet of planet_positions.items() not yet in done
NextPlanet(planet_positions, done) ==
  LET todo == { k \in 1..Len(PLANETS) :
                  PLANETS[k] \in (DOMAIN planet_positions) \ done }
  IN PLANETS[CHOOSE k \in todo : \A j \in todo : k <= j]

\* lines 146-168 of calculate_chart for one body: the position of the
\* longitude the ephemeris returned, with its nakshatra
PlanetData ==
  /\ pc = "idle"
  /\ \E longitude \in Longitudes :
       ret' = [ op |-> "planet_data",
                longitude |-> longitude,
                value |-> with_nakshatra(calculate_planet_position(longitude)) ]
  /\ pc' = "returned"
  /\ UNCHANGED << args, planets, dashas, divisional_positions, charts,
                  all_yogas, cli_vars, previous >>

\* calculate_divisional_chart lines 316-334: the method is looked up; an
\* unsupported chart type raises ValueError
DivisionalBegin ==
  /\ pc = "idle"
  /\ \E chart_type \in ChartCodes, longitude \in Longitudes :
       LET planet_positions == PlanetPositionsAt(longitude)
       IN IF chart_type \notin method_map_keys
          THEN /\ ret' = [ op |-> "calculate_divisional_chart",
                           chart_type |-> chart_type,
                           planet_positions |-> planet_positions,
                           raised |-> ValueError ]
               /\ pc' = "returned"
               /\ UNCHANGED args
          ELSE /\ args' = [ op |-> "calculate_divisional_chart",
                            chart_type |-> chart_type,
                            planet_positions |-> planet_positions ]
               /\ pc' = "cdc_loop"
               /\ UNCHANGED ret
  /\ UNCHANGED << planets, dashas, divisional_positions, charts,
                  all_yogas, cli_vars, previous >>

\* lines 336-338: one iteration of the loop over planet_positions.items()
DivisionalPlace ==
  /\ pc = "cdc_loop"
  /\ DOMAIN divisional_positions # DOMAIN args.planet_positions
  /\ LET planet == NextPlanet(args.planet_positions, DOMAIN divisional_positions)
         longitude == args.planet_positions[planet].longitude
     IN divisional_positions' =
          Put(divisional_positions, planet,
              calculation_method(args.chart_type, longitude))
  /\ UNCHANGED << pc, args, planets, dashas, charts, ret,
                  all_yogas, cli_vars, previous >>

\* lines 340-345: the chart is returned
DivisionalReturn ==
  /\ pc = "cdc_loop"
  /\ DOMAIN divisional_positions = DOMAIN args.planet_positions
  /\ ret' = [ op |-> "calculate_divisional_chart",
              chart_type |-> args.chart_type,
              planet_positions |-> args.planet_positions,
              value |-> divisional_chart(args.chart_type, divisional_positions) ]
  /\ pc' = "returned"
  /\ args' = NoArgs
  /\ divisional_positions' = << >>
  /\ UNCHANGED << planets, dashas, charts,
                  all_yogas, cli_vars, previous >>

\* get_all_divisional_charts lines 358-361: chart_types given, or defaulted
GetAllBegin ==
  LET \* the chart_types lists handed to get_all_divisional_charts
      TypeLists == UNION { [ 1..n -> ChartCodes ] : n \in 0..MaxTypes }
  IN /\ pc = "idle"
     /\ \E longitude \in SampleLongitudes :
          \/ \E chart_types \in TypeLists :
               args' = [ op |-> "get_all_divisional_charts",
                         planet_positions |-> PlanetPositionsAt(longitude),
                         chart_types |-> chart_types,
                         i |-> 1 ]
          \/ args' = [ op |-> "get_all_divisional_charts",
                       planet_positions |-> PlanetPositionsAt(longitude),
                       chart_types |-> << "D9", "D10", "D12" >>,
                       i |-> 1 ]
     /\ pc' = "gadc_loop"
     /\ charts' = << >>
     /\ UNCHANGED << planets, dashas, divisional_positions, ret,
                     all_yogas, cli_vars, previous >>

\* lines 362-363: one iteration; the ValueError of calculate_divisional_chart
\* leaves get_all_divisional_charts, whose charts are gone.  ret.computed
\* records the keys charts held when the call ended
GetAllStep ==
  /\ pc = "gadc_loop"
  /\ args.i <= Len(args.chart_types)
  /\ LET chart_type == args.chart_types[args.i]
         chart == calculate_divisional_chart(chart_type, args.planet_positions)
     IN IF chart = ValueError
        THEN /\ ret' = [ op |-> "get_all_divisional_charts",
                         chart_types |-> args.chart_types,
                         computed |-> DOMAIN charts,
                         raised |-> ValueError ]
             /\ pc' = "returned"
             /\ args' = NoArgs
             /\ charts' = << >>
        ELSE /\ charts' = Put(charts, chart_type, chart)
             /\ args' = [ args EXCEPT !.i = @ + 1 ]
             /\ UNCHANGED << pc, ret,
                  all_yogas, cli_vars, previous >>
  /\ UNCHANGED << planets, dashas, divisional_positions,
                  all_yogas, cli_vars, previous >>

\* line 365: return charts
GetAllReturn ==
  /\ pc = "gadc_loop"
  /\ args.i > Len(args.chart_types)
  /\ ret' = [ op |-> "get_all_divisional_charts",
              chart_types |-> args.chart_types,
              computed |-> DOMAIN charts,
              value |-> charts ]
  /\ pc' = "returned"
  /\ args' = NoArgs
  /\ charts' = << >>
  /\ UNCHANGED << planets, dashas, divisional_positions,
                  all_yogas, cli_vars, previous >>

NextDiv ==
  \/ PlanetData
  \/ DivisionalBegin
  \/ DivisionalPlace
  \/ DivisionalReturn
  \/ GetAllBegin
  \/ GetAllStep
  \/ GetAllReturn
  \/ Return

SpecDiv == Init /\ [][NextDiv]_vars

\* -------------------------------------------------------- C6, C7, C8, C9
PlanetDataReturned == pc = "returned" /\ ret.op = "planet_data"

DivisionalReturned(chart_type) ==
  /\ pc = "returned"
  /\ ret.op = "calculate_divisional_chart"
  /\ ret.chart_type = chart_type
  /\ "value" \in DOMAIN ret

\* C6: for every longitude in [0,360) the sign index is floor(longitude/30)
\* in 0..11 with a degree in [0,30) and index*30 + degree = longitude, the
\* nakshatra index is floor(longitude/(360/27)) in 0..26, the pada is in
\* 1..4, and every table lookup is in range
C6_IndicesInRange ==
  PlanetDataReturned =>
    LET position == ret.value
        nakshatra == ret.value.nakshatra
        sign_index == position.sign_num - 1
        nakshatra_index == nakshatra.nakshatra_num - 1
    IN /\ position.longitude = ret.longitude
       /\ sign_index \in 0..11
       /\ position.degree >= 0
       /\ position.degree < 30 * Res
       /\ sign_index * 30 * Res + position.degree = ret.longitude
       /\ position.sign = SIGNS[sign_index + 1]
       /\ position.sign # IndexError
       /\ nakshatra_index \in 0..26
       /\ nakshatra_index * Circle <= 27 * ret.longitude
       /\ 27 * ret.longitude < (nakshatra_index + 1) * Circle
       /\ nakshatra.nakshatra = NAKSHATRAS[nakshatra_index + 1]
       /\ nakshatra.nakshatra # IndexError
       /\ nakshatra.pada \in 1..4
       /\ nakshatra.lord \in { NAKSHATRA_LORDS[k] : k \in 1..9 }

\* the last grid point below 360: Pisces, Revati, pada 4
C6_Witness ==
  /\ PlanetDataReturned
  /\ ret.longitude = Circle - 1
  /\ ret.value.sign = "Pisces"
  /\ ret.value.sign_num = 12
  /\ ret.value.nakshatra.nakshatra_num = 27
  /\ ret.value.nakshatra.pada = 4

\* C7: the D1 chart reports, for every planet, the sign, sign number,
\* degree in sign and formatted degree the normalizer gave that planet
C7_D1Identity ==
  DivisionalReturned("D1") =>
    /\ DOMAIN ret.value.positions = DOMAIN ret.planet_positions
    /\ \A planet \in DOMAIN ret.planet_positions :
         LET natal == ret.planet_positions[planet]
             d1 == ret.value.positions[planet]
         IN /\ d1.sign = natal.sign
            /\ d1.sign_num = natal.sign_num
            /\ d1.degree = natal.degree
            /\ d1.degree_formatted = natal.degree_formatted

\* Rahu one grid point past 10 degrees of Cancer, Ketu opposite in Capricorn
C7_Witness ==
  /\ DivisionalReturned("D1")
  /\ ret.planet_positions["Rahu"].longitude = 100 * Res + 1
  /\ ret.value.positions["Rahu"].sign = "Cancer"
  /\ ret.value.positions["Rahu"].sign_num = 4
  /\ ret.value.positions["Rahu"].degree = 10 * Res + 1
  /\ ret.value.positions["Ketu"].sign = "Capricorn"

\* the D9 sign index the claim gives for a longitude: natal sign plus the
\* offset of its kind (movable 0, fixed 8, dual 4) plus the navamsa index,
\* the k with k*(30/9) <= degree in sign < (k+1)*(30/9)
NavamsaSignIndex(longitude) ==
  LET natal == CHOOSE n \in 0..11 :
                 n * 30 * Res <= longitude /\ longitude < (n + 1) * 30 * Res
      degree == longitude - natal * 30 * Res
      navamsa == CHOOSE k \in 0..8 :
                   k * 30 * Res <= 9 * degree /\ 9 * degree < (k + 1) * 30 * Res
      offset == << 0, 8, 4 >>[(natal % 3) + 1]
  IN (natal + offset + navamsa) % 12

\* C8: for every longitude the D9 chart puts the planet in the sign
\* (natal sign + offset + navamsa index) mod 12 with offsets 0 / 8 / 4 for
\* movable / fixed / dual natal signs; at longitude 15.0 that is Leo, 5
C8_NavamsaSign ==
  DivisionalReturned("D9") =>
    \A planet \in DOMAIN ret.planet_positions :
      LET longitude == ret.planet_positions[planet].longitude
          d9 == ret.value.positions[planet]
      IN /\ d9.sign_num = NavamsaSignIndex(longitude) + 1
         /\ d9.sign = SIGNS[NavamsaSignIndex(longitude) + 1]
         /\ longitude = 15 * Res => d9.sign = "Leo" /\ d9.sign_num = 5

\* the example of the claim, longitude 15.0, with Ketu at 195.0 in the
\* movable sign Libra, fifth navamsa, Aquarius
C8_Witness ==
  /\ DivisionalReturned("D9")
  /\ ret.planet_positions["Rahu"].longitude = 15 * Res
  /\ ret.value.positions["Rahu"].sign = "Leo"
  /\ ret.value.positions["Rahu"].sign_num = 5
  /\ ret.value.positions["Ketu"].sign = "Aquarius"

\* the chart types the claim lists as supported
SupportedCodes ==
  { "D1", "D7", "D9", "D10", "D12", "D16", "D20", "D24", "D30", "D60" }

\* C9: calculate_divisional_chart raises ValueError for every chart type
\* outside SupportedCodes without placing any planet, and
\* get_all_divisional_charts handed a list holding such a code raises too
\* and returns no charts
C9_UnsupportedTypeRejected ==
  /\ pc = "cdc_loop" => args.chart_type \in SupportedCodes
  /\ divisional_positions # << >> => args.chart_type \in SupportedCodes
  /\ (pc = "returned" /\ ret.op = "calculate_divisional_chart"
        /\ ret.chart_type \notin SupportedCodes) =>
       /\ "value" \notin DOMAIN ret
       /\ ret.raised = ValueError
  /\ (pc = "returned" /\ ret.op = "get_all_divisional_charts"
        /\ \E k \in DOMAIN ret.chart_types :
             ret.chart_types[k] \notin SupportedCodes) =>
       /\ "value" \notin DOMAIN ret
       /\ ret.raised = ValueError

\* D9 was computed before D2, which CHART_INFO lists, was rejected: the call
\* raised and the D9 chart is not returned
C9_Witness ==
  /\ pc = "returned"
  /\ ret.op = "get_all_divisional_charts"
  /\ ret.chart_types = << "D9", "D2" >>
  /\ ret.computed = { "D9" }
  /\ ret.raised = ValueError
  /\ charts = << >>

\* ------------------------------------------------------------ C21, C22, C23
\* the natal sign index and the degree in the natal sign of a longitude
NatalSign(longitude) ==
  CHOOSE n \in 0..11 :
    n * 30 * Res <= longitude /\ longitude < (n + 1) * 30 * Res

DegreeInNatalSign(longitude) == longitude - NatalSign(longitude) * 30 * Res

\* the D30 segments the claim lists, each << first degree, offset >>, for the
\* natal signs of even index and for those of odd index
TrimsamsaSegments(natal) ==
  IF natal % 2 = 0
  THEN << << 0, 0 >>, << 5, 6 >>, << 10, 8 >>, << 18, 2 >>, << 25, 4 >> >>
  ELSE << << 0, 4 >>, << 5, 2 >>, << 12, 8 >>, << 20, 6 >>, << 25, 0 >> >>

\* the segment of the claim a longitude falls in: its first degree is at or
\* below the degree in sign, the first degree of the next one is above it
TrimsamsaSegment(longitude) ==
  LET segments == TrimsamsaSegments(NatalSign(longitude))
      degree == DegreeInNatalSign(longitude)
      end(k) == IF k = 5 THEN 30 ELSE segments[k + 1][1]
  IN CHOOSE k \in 1..5 :
       segments[k][1] * Res <= degree /\ degree < end(k) * Res

TrimsamsaSignIndex(longitude) ==
  LET natal == NatalSign(longitude)
  IN (natal + TrimsamsaSegments(natal)[TrimsamsaSegment(longitude)][2]) % 12

\* C21: for every longitude the D30 chart puts the planet in the sign
\* (natal sign + offset) mod 12, the offset being that of the segment of the
\* claim's table the degree in sign falls in, a degree on a boundary falling
\* in the segment above it
C21_TrimsamsaSign ==
  DivisionalReturned("D30") =>
    \A planet \in DOMAIN ret.planet_positions :
      LET longitude == ret.planet_positions[planet].longitude
          d30 == ret.value.positions[planet]
      IN /\ d30.sign_num = TrimsamsaSignIndex(longitude) + 1
         /\ d30.sign = SIGNS[TrimsamsaSignIndex(longitude) + 1]

\* Rahu on the boundary at 12 degrees of Taurus, the second sign: offset 8,
\* Capricorn; Ketu at 12 degrees of Scorpio: offset 8, Cancer
C21_Witness ==
  /\ DivisionalReturned("D30")
  /\ ret.planet_positions["Rahu"].longitude = 42 * Res
  /\ ret.value.positions["Rahu"].sign = "Capricorn"
  /\ ret.value.positions["Ketu"].sign = "Cancer"

\* the rule table of the claim: the number of divisions D of a sign, the
\* modulus the natal sign index is classed by, whether the start is counted
\* from the natal sign, and the start (an offset, or the index of a sign
\* name) of each class
SignIndex(name) == CHOOSE n \in 0..11 : SIGNS[n + 1] = name

DivisionRules ==
  [ D16 |-> [ D |-> 16, modulus |-> 3, from_natal |-> TRUE,
              start |-> << 0, 4, 8 >> ],
    D20 |-> [ D |-> 20, modulus |-> 3, from_natal |-> FALSE,
              start |-> << SignIndex("Aries"), SignIndex("Sagittarius"),
                           SignIndex("Leo") >> ],
    D10 |-> [ D |-> 10, modulus |-> 2, from_natal |-> TRUE,
              start |-> << 0, 8 >> ],
    D7  |-> [ D |-> 7, modulus |-> 2, from_natal |-> TRUE,
              start |-> << 0, 6 >> ],
    D24 |-> [ D |-> 24, modulus |-> 2, from_natal |-> FALSE,
              start |-> << SignIndex("Leo"), SignIndex("Cancer") >> ],
    D12 |-> [ D |-> 12, modulus |-> 1, from_natal |-> TRUE, start |-> << 0 >> ],
    D60 |-> [ D |-> 60, modulus |-> 1, from_natal |-> TRUE, start |-> << 0 >> ] ]

\* floor(degreeInSign / (30/D)): the k with k*(30/D) <= degree < (k+1)*(30/D)
DivisionIndex(D, longitude) ==
  LET degree == DegreeInNatalSign(longitude)
  IN CHOOSE k \in 0..(D - 1) :
       k * 30 * Res <= D * degree /\ D * degree < (k + 1) * 30 * Res

\* the one evaluator of the rule table
RuleSignIndex(chart_type, longitude) ==
  LET rule == DivisionRules[chart_type]
      natal == NatalSign(longitude)
      class == rule.start[(natal % rule.modulus) + 1]
      start == IF rule.from_natal THEN natal + class ELSE class
  IN (start + DivisionIndex(rule.D, longitude)) % 12

\* C22: for D7, D10, D12, D16, D20, D24 and D60 and every longitude the
\* chart puts the planet in the sign (start + divisionIndex) mod 12 that
\* the one evaluator reads off the rule table of the claim
C22_RuleTable ==
  \A chart_type \in DOMAIN DivisionRules :
    DivisionalReturned(chart_type) =>
      \A planet \in DOMAIN ret.planet_positions :
        LET longitude == ret.planet_positions[planet].longitude
            position == ret.value.positions[planet]
        IN /\ position.sign_num = RuleSignIndex(chart_type, longitude) + 1
           /\ position.sign = SIGNS[RuleSignIndex(chart_type, longitude) + 1]

\* D20 with Rahu at 10 degrees of the fixed sign Taurus and Ketu at 10
\* degrees of the fixed sign Scorpio: the seventh division counted from
\* Sagittarius is Gemini for both, whatever the natal sign
C22_Witness ==
  /\ DivisionalReturned("D20")
  /\ ret.planet_positions["Rahu"].longitude = 40 * Res
  /\ ret.value.positions["Rahu"].sign = "Gemini"
  /\ ret.value.positions["Ketu"].sign = "Gemini"

\* the number of equal divisions of a sign of the charts that have one
EqualDivisions ==
  [ D1 |-> 1, D7 |-> 7, D9 |-> 9, D10 |-> 10, D12 |-> 12, D16 |-> 16,
    D20 |-> 20, D24 |-> 24, D60 |-> 60 ]

\* the degree within the divisional sign the claim gives, in grid units:
\* (degreeInNatalSign mod (30/D)) * D, and for D30
\* (degreeInNatalSign mod segmentWidth) * 30
ClaimedDegree(chart_type, longitude) ==
  LET degree == DegreeInNatalSign(longitude)
  IN IF chart_type = "D30"
     THEN LET segments == TrimsamsaSegments(NatalSign(longitude))
              k == TrimsamsaSegment(longitude)
              end == IF k = 5 THEN 30 ELSE segments[k + 1][1]
              segmentWidth == end - segments[k][1]
          IN (degree % (segmentWidth * Res)) * 30
     ELSE (EqualDivisions[chart_type] * degree) % (30 * Res)

\* a degree the code returned against a number of grid units: the same
\* number where the code's arithmetic is exact (rounded FALSE), less than
\* one grid unit away where the code returns a rounded float
DegreeIs(degree, rounded, units) ==
  IF rounded
  THEN LET scaled == [ m |-> big_scale(degree.m, Res), e |-> degree.e ]
       IN /\ float_cmp(scaled, float_of_int(units + 1)) < 0
          /\ units > 0 => float_cmp(scaled, float_of_int(units - 1)) > 0
  ELSE degree = units

DegreeBelow30(degree, rounded) ==
  IF rounded
  THEN float_cmp(degree, float_of_int(30)) < 0
  ELSE degree >= 0 /\ degree < 30 * Res

\* C23: for every supported chart type and every longitude the degree
\* within the divisional sign is in [0,30) and is
\* (degreeInNatalSign mod (30/D)) * D, for D30
\* (degreeInNatalSign mod segmentWidth) * 30 with the width of the segment
\* the degree is in
C23_DivisionDegree ==
  \A chart_type \in SupportedCodes :
    DivisionalReturned(chart_type) =>
      \A planet \in DOMAIN ret.planet_positions :
        LET longitude == ret.planet_positions[planet].longitude
            position == ret.value.positions[planet]
            rounded == chart_type = "D9"
        IN /\ DegreeBelow30(position.degree, rounded)
           /\ DegreeIs(position.degree, rounded,
                       ClaimedDegree(chart_type, longitude))

\* ------------------------------------------------------------------- C29
\* C29: for every longitude the D9 sign index is
\* (4 * (nakshatra_num - 1) + (pada - 1)) mod 12 with the nakshatra number
\* and the pada the nakshatra resolver gives that longitude, so that two
\* bodies in the same nakshatra pada are in the same navamsa sign
C29_NavamsaFromPada ==
  DivisionalReturned("D9") =>
    \A planet \in DOMAIN ret.planet_positions :
      LET nakshatra == ret.planet_positions[planet].nakshatra
          d9 == ret.value.positions[planet]
      IN d9.sign_num - 1
           = (4 * (nakshatra.nakshatra_num - 1) + (nakshatra.pada - 1)) % 12

\* =============================================================== yoga detector
\* YogaDetector.planets_in_conjunction on two planets of a chart, and on the
\* same two planets exchanged
PlanetsInConjunction ==
  LET \* the orbs handed in, in whole degrees from -1 to MaxOrb
      OrbSamples == { degrees * Res : degrees \in (0 - 1)..MaxOrb }
      \* the longitudes of the first planet handed to planets_in_conjunction; the
      \* second planet takes every longitude of the grid
      ConjunctionSamples == { 0, 10 * Res, 180 * Res, 355 * Res }
  IN /\ pc = "idle"
     /\ \E longitude1 \in ConjunctionSamples, longitude2 \in Longitudes,
           orb \in OrbSamples :
          LET planet1_data == calculate_planet_position(longitude1)
              planet2_data == calculate_planet_position(longitude2)
          IN ret' = [ op |-> "planets_in_conjunction",
                      longitude1 |-> longitude1,
                      longitude2 |-> longitude2,
                      orb |-> orb,
                      value |-> planets_in_conjunction(planet1_data, planet2_data, orb),
                      exchanged |-> planets_in_conjunction(planet2_data, planet1_data, orb) ]
     /\ pc' = "returned"
     /\ UNCHANGED << args, planets, dashas, divisional_positions, charts,
                     all_yogas, cli_vars, previous >>

NextYoga ==
  \/ PlanetsInConjunction
  \/ Return

SpecYoga == Init /\ [][NextYoga]_vars

\* ------------------------------------------------------------------- C10
ConjunctionReturned == pc = "returned" /\ ret.op = "planets_in_conjunction"

\* the shorter of the two arcs between two longitudes
CircularDistance(longitude1, longitude2) ==
  LET arcs == { (longitude1 - longitude2) % Circle,
                (longitude2 - longitude1) % Circle }
  IN CHOOSE d \in arcs : \A e \in arcs : d <= e

\* C10: planets_in_conjunction is true iff the circular distance of the two
\* longitudes is at most the orb; it gives the same answer with the planets
\* exchanged, is true at distance = orb, counts 355 and 5 as 10 apart, and
\* with orb 10 rejects 10.0 / 22.0 and accepts 10.0 / 18.0
C10_ConjunctionIffWithinOrb ==
  ConjunctionReturned =>
    LET d == CircularDistance(ret.longitude1, ret.longitude2)
    IN /\ ret.value = (d <= ret.orb)
       /\ ret.exchanged = ret.value
       /\ d = ret.orb => ret.value
       /\ (ret.longitude1 = 355 * Res /\ ret.longitude2 = 5 * Res) =>
            /\ d = 10 * Res
            /\ ret.value = (ret.orb >= 10 * Res)
       /\ (ret.longitude1 = 10 * Res /\ ret.longitude2 = 22 * Res
             /\ ret.orb = 10 * Res) => ~ ret.value
       /\ (ret.longitude1 = 10 * Res /\ ret.longitude2 = 18 * Res
             /\ ret.orb = 10 * Res) => ret.value

\* 355 and 5 degrees with the default orb: across the 0/360 boundary and
\* exactly at the orb
C10_Witness ==
  /\ ConjunctionReturned
  /\ ret.longitude1 = 355 * Res
  /\ ret.longitude2 = 5 * Res
  /\ ret.orb = 10 * Res
  /\ ret.value

\* =========================================================== yoga detection
\* the middle of sign number s (0 = Aries)
MidSign(s) == (30 * s + 15) * Res

\* the planets and houses of a chart whose bodies stand at longitudes and
\* whose ascendant stands at asc_longitude, as calculate_chart builds them
yoga_chart(asc_longitude, longitudes) ==
  [ planets |-> [ planet \in DOMAIN longitudes |->
                    with_nakshatra(calculate_planet_position(longitudes[planet])) ],
    houses |-> calculate_houses((asc_longitude + 24 * Res) % Circle, 24 * Res) ]

\* the nine bodies the ephemeris or the Rahu rule places
Grahas == { PLANETS[n] : n \in 1..9 }

\* a chart that holds every body and forms most of the yogas
YogaBase ==
  [ Sun |-> 192 * Res, Moon |-> 178 * Res, Mars |-> 175 * Res,
    Mercury |-> 194 * Res, Jupiter |-> 190 * Res, Venus |-> 200 * Res,
    Saturn |-> 185 * Res, Rahu |-> 215 * Res, Ketu |-> 35 * Res,
    Ascendant |-> 5 * Res ]

YogaCharts ==
  LET \* every subset of the ten bodies of YogaBase
      SubsetCharts ==
        { yoga_chart(YogaBase.Ascendant, [ planet \in present |-> YogaBase[planet] ]) :
            present \in SUBSET (DOMAIN YogaBase) }
      \* Sun and Mercury up to 16 degrees apart in steps of the grid, away from
      \* and across 0/360
      SunMercuryCharts ==
        { yoga_chart(MidSign(0),
                     ("Sun" :> sun) @@ ("Mercury" :> ((sun + separation) % Circle))) :
            sun \in { Res, 100 * Res, 359 * Res },
            separation \in (0 - 16 * Res)..(16 * Res) }
      \* two sign lords at these separations, on both sides of 0/360, under every
      \* ascendant
      LordPairCharts ==
        LET \* the separations of two sign lords handed to the lord rules
            LordSeparations == { 0, 10 * Res, 10 * Res + 1, 20 * Res }
        IN { yoga_chart(MidSign(a),
                        (lord1 :> first) @@ (lord2 :> ((first + separation) % Circle))) :
               a \in 0..11,
               lord1 \in Grahas \ { "Rahu", "Ketu" },
               lord2 \in Grahas \ { "Rahu", "Ketu" },
               first \in { 5 * Res, 355 * Res },
               separation \in LordSeparations }
      \* a body in its debilitation or exaltation sign and the lord of its
      \* debilitation sign in every sign, under every ascendant
      DebilitationCharts ==
        UNION { { yoga_chart(MidSign(a),
                             (planet :> MidSign(ListIndex(SIGNS, sign)))
                               @@ (sign_lord(DEBILITATION[planet]) :> MidSign(s))) :
                    a \in 0..11, s \in 0..11,
                    sign \in { DEBILITATION[planet], EXALTATION[planet] } } :
                planet \in Grahas }
      \* one body alone in every sign under every ascendant
      SinglePlanetCharts ==
        { yoga_chart(MidSign(a), (planet :> MidSign(s))) :
            planet \in Grahas, a \in 0..11, s \in 0..11 }
      \* Moon and Jupiter in every pair of signs under every ascendant
      MoonJupiterCharts ==
        { yoga_chart(MidSign(a), ("Moon" :> MidSign(m)) @@ ("Jupiter" :> MidSign(j))) :
            a \in 0..11, m \in 0..11, j \in 0..11 }
  IN MoonJupiterCharts \cup SinglePlanetCharts \cup DebilitationCharts
       \cup LordPairCharts \cup SunMercuryCharts \cup SubsetCharts

\* detect_all_yogas is entered with chart_data
DetectBegin ==
  /\ pc = "idle"
  /\ \E chart_data \in YogaCharts :
       args' = [ op |-> "detect_all_yogas", chart_data |-> chart_data, i |-> 1 ]
  /\ all_yogas' = << >>
  /\ pc' = "detect_rules"
  /\ UNCHANGED << planets, dashas, divisional_positions, charts, ret,
                  cli_vars, previous >>

\* lines 372-378: all_yogas.extend(rule(planets, houses)) for the next rule;
\* an exception raised by the rule leaves detect_all_yogas
DetectRule ==
  /\ pc = "detect_rules"
  /\ LET found == detect_rule(detect_rules[args.i], args.chart_data.planets,
                              args.chart_data.houses)
     IN IF Raised(found)
        THEN /\ ret' = [ op |-> "detect_all_yogas",
                         chart_data |-> args.chart_data,
                         raised |-> KeyError ]
             /\ pc' = "returned"
             /\ args' = NoArgs
             /\ all_yogas' = << >>
        ELSE /\ all_yogas' = all_yogas \o found
             /\ args' = [ args EXCEPT !.i = @ + 1 ]
             /\ pc' = IF args.i = Len(detect_rules)
                      THEN "detect_categorize" ELSE "detect_rules"
             /\ UNCHANGED ret
  /\ UNCHANGED << planets, dashas, divisional_positions, charts,
                  cli_vars, previous >>

\* lines 381-409: the buckets and the returned report
DetectCategorize ==
  /\ pc = "detect_categorize"
  /\ ret' = [ op |-> "detect_all_yogas",
              chart_data |-> args.chart_data,
              value |-> yoga_report(all_yogas, categorize(all_yogas)) ]
  /\ pc' = "returned"
  /\ args' = NoArgs
  /\ all_yogas' = << >>
  /\ UNCHANGED << planets, dashas, divisional_positions, charts,
                  cli_vars, previous >>

NextDetect ==
  \/ DetectBegin
  \/ DetectRule
  \/ DetectCategorize
  \/ Return

SpecDetect == Init /\ [][NextDetect]_vars

\* detect_all_yogas returned a report
DetectReturned ==
  /\ pc = "returned"
  /\ ret.op = "detect_all_yogas"
  /\ "value" \in DOMAIN ret

\* the yogas of the report that carry one of these names
Reported(names) ==
  LET named(yoga_record) == yoga_record.name \in names
  IN SelectSeq(ret.value.all_yogas, named)

\* whether the chart handed in holds the planet
Present(planet) == planet \in DOMAIN ret.chart_data.planets

\* the whole-sign house of a planet of the chart handed in, counted from the
\* sign of house 1
HouseOf(planet) ==
  LET sign_index == ret.chart_data.planets[planet].longitude \div (30 * Res)
      first_index == ret.chart_data.houses[1].sign_num - 1
  IN ((sign_index - first_index) % 12) + 1

\* ------------------------------------------------------------------- C11
\* the house distance from the Moon to Jupiter, 0 counted as 12
MoonJupiterDistance ==
  LET distance == (HouseOf("Jupiter") - HouseOf("Moon")) % 12
  IN IF distance = 0 THEN 12 ELSE distance

Separation(planet1, planet2) ==
  CircularDistance(ret.chart_data.planets[planet1].longitude,
                   ret.chart_data.planets[planet2].longitude)

\* C12: exactly one Budhaditya Yoga is reported when Sun and Mercury are
\* within 15 degrees of circular distance and none otherwise; its strength
\* is 'Weak (Combust)' whenever the separation is under 3 degrees, also
\* across the 0/360 boundary, and 'Moderate' otherwise
C12_BudhadityaCombust ==
  DetectReturned =>
    LET reported == Reported({ "Budhaditya Yoga" })
    IN IF Present("Sun") /\ Present("Mercury")
            /\ Separation("Sun", "Mercury") <= 15 * Res
       THEN /\ Len(reported) = 1
            /\ reported[1].strength =
                 IF Separation("Sun", "Mercury") < 3 * Res
                 THEN "Weak (Combust)" ELSE "Moderate"
       ELSE Len(reported) = 0

\* ------------------------------------------------------------------- C13
\* detect_all_yogas finished, with a report or with an exception
DetectFinished == pc = "returned" /\ ret.op = "detect_all_yogas"

\* the planets a rule cannot do without, by the names of its yogas
RequiredPlanets ==
  << << { "Gaja Kesari Yoga" }, { "Jupiter", "Moon" } >>,
     << { "Budhaditya Yoga" }, { "Sun", "Mercury" } >>,
     << { "Chandra Mangala Yoga" }, { "Moon", "Mars" } >>,
     << { "Ruchaka Yoga" }, { "Mars" } >>,
     << { "Bhadra Yoga" }, { "Mercury" } >>,
     << { "Hamsa Yoga" }, { "Jupiter" } >>,
     << { "Malavya Yoga" }, { "Venus" } >>,
     << { "Sasa Yoga" }, { "Saturn" } >> >>

\* C13: whatever subset of the ten bodies the chart holds, detect_all_yogas
\* returns a report and raises nothing; a rule whose required planet is
\* absent reports nothing; every planet named in a reported yoga is in the
\* chart
C13_MissingPlanetsTolerated ==
  DetectFinished =>
    /\ "value" \in DOMAIN ret
    /\ "raised" \notin DOMAIN ret
    /\ DetectReturned =>
         /\ \A n \in 1..Len(RequiredPlanets) :
              (\E planet \in RequiredPlanets[n][2] : ~ Present(planet)) =>
                Len(Reported(RequiredPlanets[n][1])) = 0
         /\ \A n \in 1..Len(ret.value.all_yogas) :
              \A k \in 1..Len(ret.value.all_yogas[n].planets) :
                Present(ret.value.all_yogas[n].planets[k])

\* the chart of YogaBase without the Moon: the Moon rules report nothing,
\* other rules still report
C13_Witness ==
  /\ DetectReturned
  /\ DOMAIN ret.chart_data.planets = (DOMAIN YogaBase) \ { "Moon" }
  /\ Len(Reported({ "Gaja Kesari Yoga", "Chandra Mangala Yoga" })) = 0
  /\ ret.value.total_yogas > 0

\* ------------------------------------------------------------------- C14
\* the position of the rule that reports a yoga of this name in the order
\* Raja, Dhana, Gaja Kesari, Pancha Mahapurusha, Neecha Bhanga, Budhaditya,
\* Chandra Mangala
RuleRank(name) ==
  CASE name = "Raja Yoga" -> 1
    [] name = "Dhana Yoga" -> 2
    [] name = "Gaja Kesari Yoga" -> 3
    [] name \in { "Ruchaka Yoga", "Bhadra Yoga", "Hamsa Yoga", "Malavya Yoga",
                  "Sasa Yoga" } -> 4
    [] name = "Neecha Bhanga Raja Yoga" -> 5
    [] name = "Budhaditya Yoga" -> 6
    [] name = "Chandra Mangala Yoga" -> 7
    [] OTHER -> 0

\* the bucket named by a lower-cased type
BucketOfType(type) ==
  CASE type = "Prosperity" -> "prosperity"
    [] type = "Wealth" -> "wealth"
    [] type = "Intelligence" -> "intelligence"
    [] type = "Mahapurusha" -> "mahapurusha"
    [] type = "Cancellation" -> "cancellation"
    [] OTHER -> "other"

SixBuckets ==
  { "prosperity", "wealth", "intelligence", "mahapurusha", "cancellation",
    "other" }

RECURSIVE SumSizes(_, _)
SumSizes(buckets, keys) ==
  IF keys = {} THEN 0
  ELSE LET key == CHOOSE k \in keys : TRUE
       IN Len(buckets[key]) + SumSizes(buckets, keys \ { key })

\* C14: in every report total_yogas is the length of all_yogas, all_yogas
\* holds the rule results in the fixed rule order, every yoga is in exactly
\* one bucket, the one named by its lower-cased type, the bucket sizes sum to
\* total_yogas, and a report without yogas has total 0, an empty list and six
\* empty buckets
C14_ReportStructure ==
  DetectReturned =>
    LET report == ret.value
        yogas == report.all_yogas
    IN /\ report.total_yogas = Len(yogas)
       /\ \A n \in 1..Len(yogas) : RuleRank(yogas[n].name) \in 1..7
       /\ \A n, m \in 1..Len(yogas) :
            n < m => RuleRank(yogas[n].name) <= RuleRank(yogas[m].name)
       /\ DOMAIN report.by_category = SixBuckets
       /\ \A key \in SixBuckets :
            LET belongs(yoga_record) == BucketOfType(yoga_record.type) = key
            IN report.by_category[key] = SelectSeq(yogas, belongs)
       /\ SumSizes(report.by_category, SixBuckets) = report.total_yogas
       /\ Len(yogas) = 0 =>
            /\ report.total_yogas = 0
            /\ \A key \in SixBuckets : report.by_category[key] = << >>

\* the chart of YogaBase: all seven rules report and five buckets are filled
C14_Witness ==
  /\ DetectReturned
  /\ { RuleRank(ret.value.all_yogas[n].name) :
         n \in 1..Len(ret.value.all_yogas) } = 1..7
  /\ \A key \in SixBuckets \ { "other" } : Len(ret.value.by_category[key]) > 0
  /\ ret.value.total_yogas = 14

\* ------------------------------------------------------------------- C18
\* the sign of a planet of the chart handed in, from its longitude
SignOf(planet) ==
  SIGNS[(ret.chart_data.planets[planet].longitude \div (30 * Res)) + 1]

\* the five planets of the Pancha Mahapurusha Yogas with the name of the yoga
\* and the planet's own and exaltation signs
MahapurushaTable ==
  [ Mars |-> [ name |-> "Ruchaka Yoga",
               signs |-> { "Aries", "Scorpio", "Capricorn" } ],
    Mercury |-> [ name |-> "Bhadra Yoga", signs |-> { "Gemini", "Virgo" } ],
    Jupiter |-> [ name |-> "Hamsa Yoga",
                  signs |-> { "Sagittarius", "Pisces", "Cancer" } ],
    Venus |-> [ name |-> "Malavya Yoga",
                signs |-> { "Taurus", "Libra", "Pisces" } ],
    Saturn |-> [ name |-> "Sasa Yoga",
                 signs |-> { "Capricorn", "Aquarius", "Libra" } ] ]

MahapurushaNames ==
  { MahapurushaTable[planet].name : planet \in DOMAIN MahapurushaTable }

\* C18: each of Mars, Mercury, Jupiter, Venus, Saturn present in the chart
\* gets its yoga (Ruchaka, Bhadra, Hamsa, Malavya, Sasa) exactly when it is
\* in an own sign or its exaltation sign and in house 1, 4, 7 or 10; at most
\* one per planet and five in all, and no other planet produces one
C18_PanchaMahapurusha ==
  DetectReturned =>
    LET reported == Reported(MahapurushaNames)
    IN /\ \A planet \in DOMAIN MahapurushaTable :
            Len(Reported({ MahapurushaTable[planet].name })) =
              IF /\ Present(planet)
                 /\ SignOf(planet) \in MahapurushaTable[planet].signs
                 /\ HouseOf(planet) \in { 1, 4, 7, 10 }
              THEN 1 ELSE 0
       /\ Len(reported) <= 5
       /\ \A n \in 1..Len(reported) :
            /\ Len(reported[n].planets) = 1
            /\ reported[n].planets[1] \in DOMAIN MahapurushaTable
            /\ reported[n].name = MahapurushaTable[reported[n].planets[1]].name
            /\ reported[n].type = "Mahapurusha"
       /\ \A n \in 1..Len(ret.value.all_yogas) :
            ret.value.all_yogas[n].type = "Mahapurusha" =>
              ret.value.all_yogas[n].name \in MahapurushaNames

\* Jupiter exalted in Cancer in house 10: Hamsa Yoga is reported
C18_Witness ==
  /\ DetectReturned
  /\ Present("Jupiter")
  /\ SignOf("Jupiter") = "Cancer"
  /\ HouseOf("Jupiter") = 10
  /\ Len(Reported({ "Hamsa Yoga" })) = 1

\* ------------------------------------------------------------------- C19
\* the planets that can be debilitated, each with its debilitation sign and
\* the planet whose own sign that is
NeechaTable ==
  [ Sun |-> [ sign |-> "Libra", lord |-> "Venus" ],
    Moon |-> [ sign |-> "Scorpio", lord |-> "Mars" ],
    Mars |-> [ sign |-> "Cancer", lord |-> "Moon" ],
    Mercury |-> [ sign |-> "Pisces", lord |-> "Jupiter" ],
    Jupiter |-> [ sign |-> "Capricorn", lord |-> "Saturn" ],
    Venus |-> [ sign |-> "Virgo", lord |-> "Mercury" ],
    Saturn |-> [ sign |-> "Aries", lord |-> "Mars" ] ]

\* the Neecha Bhanga Raja Yogas of the report whose debilitated planet is
\* this one
NeechaBhangaOf(planet) ==
  LET about(yoga_record) ==
        /\ yoga_record.name = "Neecha Bhanga Raja Yoga"
        /\ yoga_record.planets[1] = planet
  IN SelectSeq(ret.value.all_yogas, about)

SignRuler ==
  [ Aries |-> "Mars", Taurus |-> "Venus", Gemini |-> "Mercury",
    Cancer |-> "Moon", Leo |-> "Sun", Virgo |-> "Mercury", Libra |-> "Venus",
    Scorpio |-> "Mars", Sagittarius |-> "Jupiter", Capricorn |-> "Saturn",
    Aquarius |-> "Saturn", Pisces |-> "Jupiter" ]

\* the lord of a house of the chart handed in: the ruler of the sign that
\* many signs after the sign of house 1
LordOfHouse(house) ==
  SignRuler[SIGNS[((ret.chart_data.houses[1].sign_num - 1 + house - 1) % 12) + 1]]

\* whether the report holds a Raja Yoga of these two planets in this order
RajaYogaOf(kendra_lord, trikona_lord) ==
  \E n \in 1..Len(ret.value.all_yogas) :
    /\ ret.value.all_yogas[n].name = "Raja Yoga"
    /\ ret.value.all_yogas[n].planets = << kendra_lord, trikona_lord >>

\* C20: a Raja Yoga is reported for (K, T) exactly when K is the lord of
\* house 1, 4, 7 or 10, T is the lord of house 1, 5 or 9, neither is the Sun
\* or the Moon, K and T differ and are in conjunction within 10 degrees; a
\* planet ruling a Kendra and a Trikona never forms it with itself
C20_RajaYoga ==
  DetectReturned =>
    /\ \A K \in Grahas, T \in Grahas :
         RajaYogaOf(K, T) =
           /\ \E house \in { 1, 4, 7, 10 } : LordOfHouse(house) = K
           /\ \E house \in { 1, 5, 9 } : LordOfHouse(house) = T
           /\ K \notin { "Sun", "Moon" }
           /\ T \notin { "Sun", "Moon" }
           /\ K # T
           /\ Present(K) /\ Present(T)
           /\ Separation(K, T) <= 10 * Res
    /\ LET reported == Reported({ "Raja Yoga" })
       IN \A n \in 1..Len(reported) :
            /\ Len(reported[n].planets) = 2
            /\ reported[n].planets[1] # reported[n].planets[2]
            /\ reported[n].planets[1] \in Grahas
            /\ reported[n].planets[2] \in Grahas

\* a Kendra lord at 355 degrees and a Trikona lord at 5 degrees, exactly 10
\* degrees apart across 0/360, while the lord of house 1 is present: the yoga
\* is reported for the pair and not for the lord of house 1 with itself
C20_Witness ==
  /\ DetectReturned
  /\ \E K \in Grahas, T \in Grahas :
       /\ RajaYogaOf(K, T)
       /\ ret.chart_data.planets[K].longitude = 355 * Res
       /\ ret.chart_data.planets[T].longitude = 5 * Res
       /\ LordOfHouse(1) \in { K, T }

\* ============================================================== application
\* AstroCLI.calculate_chart(birth_details) is entered and calls
\* VedicCalculator.calculate_chart; new_chart hands in the timezone-aware
\* datetime of input_birth_details, other callers any datetime
CliCalculateChart ==
  LET \* the names entered for a chart; two of them give the same file name
      NameSamples == { "A B", "A_B", "C" }
  IN /\ pc = "idle"
     /\ cli = CliReady
     /\ \E birth_datetime \in { b \in BirthSamples : b.t = 0 },
           name \in NameSamples, location \in LocationSamples,
           sky \in DOMAIN FixedSkies :
          /\ cli' = [ at |-> "calculating",
                      birth_details |-> [ name |-> name,
                                          birth_datetime |-> birth_datetime,
                                          latitude |-> location.latitude,
                                          longitude |-> location.longitude ],
                      sky |-> sky,
                      held |-> << current_chart, current_yogas >> ]
          /\ args' = [ op |-> "calculate_chart",
                       birth_datetime |-> birth_datetime,
                       location |-> location,
                       probe |-> sky,
                       tropical_asc |-> 0,
                       ayanamsa |-> 0,
                       ascendant_data |-> None,
                       i |-> 1 ]
     /\ pc' = "cc_ascendant"
     /\ UNCHANGED << planets, dashas, divisional_positions, charts, ret,
                     all_yogas, current_chart, current_yogas, charts_dir,
                     previous >>

\* CliChartReturned dropping the held chart when the calculator raises
CliChartReturned_drops_held ==
  /\ pc = "returned"
  /\ cli.at = "calculating"
  /\ IF "raised" \in DOMAIN ret
     THEN /\ ret' = [ op |-> "AstroCLI.calculate_chart",
                      raised |-> ret.raised,
                      held |-> cli.held ]
          /\ cli' = CliReady
          /\ current_chart' = None
          /\ current_yogas' = None
          /\ UNCHANGED << pc, args, all_yogas >>
     ELSE /\ args' = [ op |-> "detect_all_yogas",
                       chart_data |-> ret.value
                                        @@ [ name |-> cli.birth_details.name ],
                       i |-> 1 ]
          /\ all_yogas' = << >>
          /\ pc' = "detect_rules"
          /\ cli' = [ cli EXCEPT !.at = "detecting" ]
          /\ ret' = NoReturn
          /\ UNCHANGED << current_chart, current_yogas >>
  /\ UNCHANGED << planets, dashas, divisional_positions, charts, charts_dir,
                  previous >>

\* lines 134-146: the calculator returned or raised; an exception leaves
\* AstroCLI.calculate_chart, a chart gets its name and goes to
\* detect_all_yogas
CliChartReturned ==
  /\ pc = "returned"
  /\ cli.at = "calculating"
  /\ IF "raised" \in DOMAIN ret
     THEN /\ ret' = [ op |-> "AstroCLI.calculate_chart",
                      raised |-> ret.raised,
                      held |-> cli.held ]
          /\ cli' = CliReady
          /\ UNCHANGED << pc, args, all_yogas >>
     ELSE /\ args' = [ op |-> "detect_all_yogas",
                       chart_data |-> ret.value
                                        @@ [ name |-> cli.birth_details.name ],
                       i |-> 1 ]
          /\ all_yogas' = << >>
          /\ pc' = "detect_rules"
          /\ cli' = [ cli EXCEPT !.at = "detecting" ]
          /\ ret' = NoReturn
  /\ UNCHANGED << planets, dashas, divisional_positions, charts,
                  current_chart, current_yogas, charts_dir, previous >>

\* lines 146-152: detect_all_yogas returned; the chart and the report become
\* the held ones
CliYogasReturned ==
  /\ pc = "returned"
  /\ cli.at = "detecting"
  /\ IF "raised" \in DOMAIN ret
     THEN /\ ret' = [ op |-> "AstroCLI.calculate_chart",
                      raised |-> ret.raised,
                      held |-> cli.held ]
          /\ UNCHANGED << current_chart, current_yogas >>
     ELSE /\ current_chart' = ret.chart_data
          /\ current_yogas' = ret.value
          /\ ret' = [ op |-> "AstroCLI.calculate_chart",
                      value |-> << ret.chart_data, ret.value >>,
                      held |-> cli.held ]
  /\ cli' = CliReady
  /\ UNCHANGED << pc, args, planets, dashas, divisional_positions, charts,
                  all_yogas, charts_dir, previous >>

\* AstroCLI.save_chart; a file keeps, next to its content, the chart and the
\* report that were held when it was written
CliSaveChart ==
  LET \* the day save_chart reads from the clock
      SaveDays == { 20261101 }
  IN /\ pc = "idle"
     /\ cli = CliReady
     /\ IF current_chart = None
        THEN /\ ret' = [ op |-> "save_chart", saved |-> FALSE ]
             /\ UNCHANGED charts_dir
        ELSE \E today \in SaveDays :
               LET filename == chart_filename(current_chart, today)
                   data_to_save == [ chart |-> current_chart,
                                     yogas |-> current_yogas ]
               IN /\ charts_dir' =
                       Put(charts_dir, filename,
                           [ content |-> json_dump(data_to_save),
                             saved_from |-> data_to_save ])
                  /\ ret' = [ op |-> "save_chart", saved |-> TRUE,
                              filename |-> filename ]
     /\ pc' = "returned"
     /\ UNCHANGED << args, planets, dashas, divisional_positions, charts,
                     all_yogas, cli, current_chart, current_yogas, previous >>

\* load_chart that replaces the chart held and leaves the yoga report held
CliLoadChart_keeps_yogas ==
  /\ pc = "idle"
  /\ cli = CliReady
  /\ \/ /\ DOMAIN charts_dir = {}
        /\ ret' = [ op |-> "load_chart", loaded |-> FALSE ]
        /\ UNCHANGED << current_chart, current_yogas >>
     \/ /\ DOMAIN charts_dir # {}
        /\ ret' = [ op |-> "load_chart", loaded |-> FALSE ]
        /\ UNCHANGED << current_chart, current_yogas >>
     \/ \E chart_file \in DOMAIN charts_dir :
          LET data == charts_dir[chart_file].content
          IN /\ current_chart' = data.chart
             /\ UNCHANGED current_yogas
             /\ ret' = [ op |-> "load_chart", loaded |-> TRUE,
                         filename |-> chart_file,
                         held |-> << current_chart, current_yogas >> ]
  /\ pc' = "returned"
  /\ UNCHANGED << args, planets, dashas, divisional_positions, charts,
                  all_yogas, cli, charts_dir, previous >>

\* AstroCLI.load_chart: no file, a choice that names no file, or a file
\* whose chart and report become the held ones
CliLoadChart ==
  /\ pc = "idle"
  /\ cli = CliReady
  /\ \/ /\ DOMAIN charts_dir = {}
        /\ ret' = [ op |-> "load_chart", loaded |-> FALSE ]
        /\ UNCHANGED << current_chart, current_yogas >>
     \/ /\ DOMAIN charts_dir # {}
        /\ ret' = [ op |-> "load_chart", loaded |-> FALSE ]
        /\ UNCHANGED << current_chart, current_yogas >>
     \/ \E chart_file \in DOMAIN charts_dir :
          LET data == charts_dir[chart_file].content
          IN /\ current_chart' = data.chart
             /\ current_yogas' = data.yogas
             /\ ret' = [ op |-> "load_chart", loaded |-> TRUE,
                         filename |-> chart_file,
                         held |-> << current_chart, current_yogas >> ]
  /\ pc' = "returned"
  /\ UNCHANGED << args, planets, dashas, divisional_positions, charts,
                  all_yogas, cli, charts_dir, previous >>

NextCli ==
  \/ CliCalculateChart
  \/ CalculateChartAscendant
  \/ CalculateChartPlanet
  \/ CalculateChartEphemerisFails
  \/ CalculateChartFinish
  \/ CliChartReturned
  \/ DetectRule
  \/ DetectCategorize
  \/ CliYogasReturned
  \/ CliSaveChart
  \/ CliLoadChart
  \/ Return

SpecCli == Init /\ [][NextCli]_vars

\* ------------------------------------------------------------------- C15
\* VedicCalculator.calculate_chart ended
CalculatorFinished == pc = "returned" /\ ret.op = "calculate_chart"

\* AstroCLI.calculate_chart ended
CliCalculateFinished == pc = "returned" /\ ret.op = "AstroCLI.calculate_chart"

\* C15: when an ephemeris call fails during calculate_chart the failure
\* leaves calculate_chart and no chart is returned, neither partial nor with
\* substituted positions; a chart that is returned holds all ten bodies at
\* the longitudes the ephemeris gave; in the CLI the chart and yoga report
\* held before are left as they were
C15_EphemerisFailureIsFatal ==
  /\ CalculatorFinished =>
       IF "value" \in DOMAIN ret
       THEN /\ "raised" \notin DOMAIN ret
            /\ DOMAIN ret.value.planets = { PLANETS[n] : n \in 1..Len(PLANETS) }
            /\ \A body \in Grahas \ { "Ketu" } :
                 ret.value.planets[body].longitude
                   = FixedSkies[cli.sky][body]
       ELSE /\ ret.raised \in { EphemerisError, TypeError }
            /\ planets = << >>
  /\ (CliCalculateFinished /\ "raised" \in DOMAIN ret) =>
       /\ "value" \notin DOMAIN ret
       /\ << current_chart, current_yogas >> = ret.held

\* a chart and its report are held and a new calculation ends with the
\* ephemeris failure: both are still held
C15_Witness ==
  /\ CliCalculateFinished
  /\ "raised" \in DOMAIN ret
  /\ ret.raised = EphemerisError
  /\ current_chart # None
  /\ current_yogas # None
  /\ current_yogas.total_yogas > 0

\* ------------------------------------------------------------------- C16
\* load_chart ended having read a file
ChartLoaded == pc = "returned" /\ ret.op = "load_chart" /\ ret.loaded

RepeatCalculateChart ==
  /\ pc = "idle"
  /\ \E birth_datetime \in { b \in BirthSamples : b.t = 0 },
        location \in LocationSamples, sky \in DOMAIN FixedSkies :
       args' = [ op |-> "calculate_chart",
                 birth_datetime |-> birth_datetime,
                 location |-> location,
                 probe |-> sky,
                 tropical_asc |-> 0,
                 ayanamsa |-> 0,
                 ascendant_data |-> None,
                 i |-> 1 ]
  /\ pc' = "cc_ascendant"
  /\ UNCHANGED << planets, dashas, divisional_positions, charts, ret,
                  all_yogas, cli_vars, previous >>

\* a caller calls detect_all_yogas again on the same detector
RepeatDetect ==
  LET \* the charts handed to a detector that is called again
      RepeatCharts ==
        { yoga_chart(YogaBase.Ascendant, [ planet \in present |-> YogaBase[planet] ]) :
            present \in { DOMAIN YogaBase, (DOMAIN YogaBase) \ { "Moon" },
                          { "Sun", "Mercury" } } }
  IN /\ pc = "idle"
     /\ \E chart_data \in RepeatCharts :
          args' = [ op |-> "detect_all_yogas", chart_data |-> chart_data, i |-> 1 ]
     /\ all_yogas' = << >>
     /\ pc' = "detect_rules"
     /\ UNCHANGED << planets, dashas, divisional_positions, charts, ret,
                     cli_vars, previous >>

\* a caller calls calculate_divisional_chart again on the same engine
RepeatDivisional ==
  LET \* the chart types handed to a divisional engine that is called again
      RepeatCodes == { "D9", "D30", "D99" }
  IN /\ pc = "idle"
     /\ \E chart_type \in RepeatCodes, longitude \in SampleLongitudes :
          LET planet_positions == PlanetPositionsAt(longitude)
          IN IF chart_type \notin method_map_keys
             THEN /\ ret' = [ op |-> "calculate_divisional_chart",
                              chart_type |-> chart_type,
                              planet_positions |-> planet_positions,
                              raised |-> ValueError ]
                  /\ pc' = "returned"
                  /\ UNCHANGED args
             ELSE /\ args' = [ op |-> "calculate_divisional_chart",
                               chart_type |-> chart_type,
                               planet_positions |-> planet_positions ]
                  /\ pc' = "cdc_loop"
                  /\ UNCHANGED ret
     /\ UNCHANGED << planets, dashas, divisional_positions, charts,
                     all_yogas, cli_vars, previous >>

\* the caller has taken what the call returned or raised and keeps it to
\* compare it with the result of its next call
RepeatReturn ==
  /\ pc = "returned"
  /\ pc' = "idle"
  /\ previous' = ret
  /\ ret' = NoReturn
  /\ UNCHANGED << args, planets, dashas, divisional_positions, charts,
                  all_yogas, cli_vars >>

NextRepeat ==
  \/ RepeatCalculateChart
  \/ CalculateChartAscendant
  \/ CalculateChartPlanet
  \/ CalculateChartEphemerisFails
  \/ CalculateChartFinish
  \/ RepeatDetect
  \/ DetectRule
  \/ DetectCategorize
  \/ RepeatDivisional
  \/ DivisionalPlace
  \/ DivisionalReturn
  \/ RepeatReturn

SpecRepeat == Init /\ [][NextRepeat]_vars

\* ------------------------------------------------------------------- C17
\* what a call gave its caller: the value returned or the exception raised
Outcome(call) ==
  IF "value" \in DOMAIN call
  THEN [ value |-> call.value ]
  ELSE [ raised |-> call.raised ]

\* the last two calls were calls of calculate_chart with the same birth
\* datetime that got the same values from the ephemeris
SameChartInputs ==
  /\ pc = "returned"
  /\ ret.op = "calculate_chart"
  /\ previous.op = "calculate_chart"
  /\ "ephemeris" \in DOMAIN ret
  /\ "ephemeris" \in DOMAIN previous
  /\ ret.birth_datetime = previous.birth_datetime
  /\ ret.ephemeris = previous.ephemeris

\* the last two calls were calls of detect_all_yogas with the same chart
SameDetectInputs ==
  /\ pc = "returned"
  /\ ret.op = "detect_all_yogas"
  /\ previous.op = "detect_all_yogas"
  /\ ret.chart_data = previous.chart_data

\* the last two calls were calls of calculate_divisional_chart with the same
\* chart type and planets
SameDivisionalInputs ==
  /\ pc = "returned"
  /\ ret.op = "calculate_divisional_chart"
  /\ previous.op = "calculate_divisional_chart"
  /\ ret.chart_type = previous.chart_type
  /\ ret.planet_positions = previous.planet_positions

NakshatraIndex(longitude) ==
  CHOOSE k \in 0..26 :
    k * Circle <= 27 * longitude /\ 27 * longitude < (k + 1) * Circle

\* C24: in every chart calculate_chart returns, the nakshatra lord of every
\* body is element (nakshatraIndex mod 9) of Ketu, Venus, Sun, Moon, Mars,
\* Rahu, Jupiter, Saturn, Mercury; a body in the first nakshatra has the
\* lord Ketu, bodies whose nakshatras are 9 apart have the same lord, and
\* the dasha periods of the chart run through the same list in the same
\* order from the Moon's nakshatra lord on
C24_NakshatraLord ==
  ChartReturned =>
    LET bodies == ret.value.planets
        index(body) == NakshatraIndex(bodies[body].longitude)
        lord(body) == bodies[body].nakshatra.lord
        periods == ret.value.dasha.periods
    IN /\ \A body \in DOMAIN bodies :
            /\ lord(body) = CanonicalLords[(index(body) % 9) + 1]
            /\ index(body) = 0 => lord(body) = "Ketu"
       /\ \A body1, body2 \in DOMAIN bodies :
            (index(body1) = index(body2) + 9 \/ index(body1) = index(body2) + 18)
              => lord(body1) = lord(body2)
       /\ Len(periods) = 9
       /\ \A k \in 1..9 :
            periods[k].lord = CanonicalLords[((index("Moon") + k - 1) % 9) + 1]

\* the Moon in Magha, the tenth nakshatra, and the Sun in Ashwini, the
\* first: both have the lord Ketu, and the periods begin with Ketu, Venus
C24_Witness ==
  /\ ChartReturned
  /\ ret.value.planets["Moon"].longitude = 125 * Res
  /\ ret.value.planets["Moon"].nakshatra.nakshatra_num = 10
  /\ ret.value.planets["Moon"].nakshatra.lord = "Ketu"
  /\ ret.value.planets["Sun"].nakshatra.nakshatra_num = 1
  /\ ret.value.planets["Sun"].nakshatra.lord = "Ketu"
  /\ ret.value.dasha.periods[1].lord = "Ketu"
  /\ ret.value.dasha.periods[2].lord = "Venus"

RECURSIVE RulesFrom(_, _)
RulesFrom(k, chart_data) ==
  IF k > Len(detect_rules) THEN << >>
  ELSE detect_rule(detect_rules[k], chart_data.planets, chart_data.houses)
         \o RulesFrom(k + 1, chart_data)

\* whether detect_all_yogas(chart_data) returns this report
IsReportOf(report, chart_data) ==
  /\ \A k \in 1..Len(detect_rules) :
       ~Raised(detect_rule(detect_rules[k], chart_data.planets,
                           chart_data.houses))
  /\ report # None
  /\ report.all_yogas = RulesFrom(1, chart_data)
  /\ report.total_yogas = Len(report.all_yogas)
  /\ \A key \in DOMAIN report.by_category :
       \A k \in 1..Len(report.by_category[key]) :
         \E n \in 1..Len(report.all_yogas) :
           report.by_category[key][k] = report.all_yogas[n]

\* C26: whatever the CLI has done (calculations that ended or failed, saves,
\* loads of files that save wrote), either no chart and no report is held,
\* or the report held is detect_all_yogas of the chart held
C26_YogasOfHeldChart ==
  IF current_chart = None
  THEN current_yogas = None
  ELSE IsReportOf(current_yogas, current_chart)

\* a file is loaded while a chart with another report is held: chart and
\* report are replaced together
C26_Witness ==
  /\ ChartLoaded
  /\ ret.held[1] # None
  /\ ret.held[1].planets # current_chart.planets
  /\ ret.held[2] # current_yogas
  /\ IsReportOf(current_yogas, current_chart)

\* ------------------------------------------------------------------- C27
\* C27: calculate_vimshottari_dasha never raises, whether the birth datetime
\* is naive or aware, so a calculate_chart the CLI starts fails only when
\* the ephemeris fails, and with a timezone-aware birth datetime and a
\* working ephemeris it returns a chart with the nine dasha periods
C27_AwareBirthCompletes ==
  CalculatorFinished =>
    /\ "raised" \in DOMAIN ret => ret.raised = EphemerisError
    /\ "value" \in DOMAIN ret => Len(ret.value.dasha.periods) = 9
    /\ cli.birth_details.birth_datetime.aware =>
         \/ "value" \in DOMAIN ret
         \/ ret.raised = EphemerisError

\* ------------------------------------------------------------------- C28
\* the planets a yoga record names, as a set
InvolvedPlanets(yoga_record) ==
  { yoga_record.planets[k] : k \in DOMAIN yoga_record.planets }

\* C28: in a report detect_all_yogas returns no two records have the same
\* name and the same set of planets: a conjunct pair of house lords is
\* reported once as a Raja Yoga and once as a Dhana Yoga, whatever the
\* ascendant
C28_NoDuplicateYoga ==
  DetectReturned =>
    LET records == ret.value.all_yogas
    IN \A i, j \in 1..Len(records) :
         (/\ i # j
          /\ records[i].name = records[j].name)
           => InvolvedPlanets(records[i]) # InvolvedPlanets(records[j])

\* ------------------------------------------------------------------- C30
\* the planets the comment of calculate_d30_trimsamsa names for the five
\* segments, in ascending degree order
SegmentPlanets(natal) ==
  IF natal % 2 = 0
  THEN << "Mars", "Saturn", "Jupiter", "Mercury", "Venus" >>
  ELSE << "Venus", "Mercury", "Jupiter", "Saturn", "Mars" >>

\* C30: for every natal sign and each of its five segments, the sign the
\* D30 chart returns is one of the own signs of the planet the comment
\* names for the segment
C30_TrimsamsaRulers ==
  DivisionalReturned("D30") =>
    \A planet \in DOMAIN ret.planet_positions :
      LET longitude == ret.planet_positions[planet].longitude
          ruler == SegmentPlanets(NatalSign(longitude))[TrimsamsaSegment(longitude)]
          d30 == ret.value.positions[planet]
      IN \E k \in DOMAIN OWN_SIGNS[ruler] : OWN_SIGNS[ruler][k] = d30.sign

====
